---- MODULE Spec2Model ----
(***************************************************************************)
(* Model of generate_blogs.py (Pro Truck Logistics blog post generator):   *)
(* topic acquisition, the topic loop of main, the local index merge        *)
(* (update_blog_index) and the FTP publisher (upload_files_to_ftp).  The   *)
(* file holds two script revisions, one after the other; they define the   *)
(* index merge and the publisher identically, and differ in the topic      *)
(* tiers, the image lookup and POSTS_TO_GENERATE (variable rev).           *)
(***************************************************************************)
EXTENDS Integers, Sequences, FiniteSets, TLC

\* ---------------------------------------------------------------- bounds
MaxId == 2          \* post ids are 1..MaxId (int(time.time()) values)
MaxBatch == 2       \* longest batch handed to update_blog_index
MaxExisting == 3    \* longest externally supplied index array
MaxFiles == 3       \* longest file list handed to upload_files_to_ftp
MaxCalls == 2       \* number of upload_files_to_ftp calls in a behaviour

Ids == 1..MaxId
Titles == {"t1", "t2"}

VARIABLES
    index_file,     \* blog-posts/index.json: [kind, data]
    batch,          \* argument of the last update_blog_index call
    index_before,   \* index_file as it was when the last call started
    index_result,   \* "none" | "returned" | "raised" (last call)
    repeated,       \* TRUE iff the last call repeated the batch of the
                    \* call before it, and that call had returned
    ftp_pc,         \* position inside upload_files_to_ftp
    file_paths,     \* argument of the current upload_files_to_ftp call
    file_i,         \* 1-based position of the for loop over file_paths
    walk_i,         \* 0-based position of the loop over path_parts
    conn,           \* control connection: "none" | "open" | "closed"
    entered,        \* TRUE once the with block has been entered
    pending,        \* TRUE while an exception is propagating
    remote_dirs,    \* directories existing on the remote host
    remote_cwd,     \* current remote directory of the session
    remote_files,   \* <<directory, name>> pairs stored on the remote host
    ops,            \* commands issued by the current call, with outcomes
    result,         \* "none" | "True" | "False": value returned
    calls,          \* number of upload_files_to_ftp calls started
    rev,            \* script revision running: 1 (lines 1-986) or 2
    main_pc,        \* position inside main
    topic_pc,       \* position inside get_current_logistics_topics
    loop_i,         \* position of the loop over sites or categories
    acc,            \* news_articles / category_topics collected so far
    tier_log,       \* tiers attempted by the current call, in order
    topics,         \* value returned by get_current_logistics_topics
    selected,       \* selected_topics of main
    now,            \* wall clock, in seconds (time.time())
    topic_i,        \* number of selected topics the loop of main has taken
    gen_pc,         \* position inside the body of the loop of main
    image_url,      \* image_url of generate_blog_post
    post_id,        \* post_id of generate_blog_post, 0 while unassigned
    generated_posts,\* generated_posts of main
    local_files,    \* files of blog-posts/ other than index.json
    raised,         \* step whose exception left main, or "none"
    report,         \* outcome main prints at its end, or "none"
    cand,           \* candidate topic handed to the relevance filters
    passed,         \* verdicts of the filters on cand, once applied
    arg,            \* topic argument of the function under study
    img_pc,         \* position inside get_relevant_image
    img_log,        \* image sources consulted by the call, in order
    img_url,        \* value returned by get_relevant_image
    category,       \* category of generate_blog_post
    scope           \* stage of main a staged behaviour follows, or "any"

index_vars == <<index_file, batch, index_before, index_result, repeated>>
ftp_vars == <<ftp_pc, file_paths, file_i, walk_i, conn, entered, pending,
              remote_dirs, remote_cwd, remote_files, ops, result, calls>>
topic_vars == <<rev, main_pc, topic_pc, loop_i, acc, tier_log, topics,
                selected>>
run_vars == <<now, topic_i, gen_pc, image_url, post_id, generated_posts,
              local_files, raised, report>>
filter_vars == <<cand, passed>>
call_vars == <<arg, img_pc, img_log, img_url, category>>
side_vars == <<cand, passed, arg, img_pc, img_log, img_url, category, scope>>
vars == <<index_file, batch, index_before, index_result, repeated,
          ftp_pc, file_paths, file_i, walk_i, conn, entered, pending,
          remote_dirs, remote_cwd, remote_files, ops, result, calls,
          rev, main_pc, topic_pc, loop_i, acc, tier_log, topics, selected,
          now, topic_i, gen_pc, image_url, post_id, generated_posts,
          local_files, raised, report, cand, passed,
          arg, img_pc, img_log, img_url, category, scope>>

\* ------------------------------------------------------------ data model
\* A post as assembled by generate_blog_post; only id and title vary here.
Post(i, t) ==
    [id |-> i, title |-> t, excerpt |-> "excerpt", date |-> "date",
     category |-> "category", author |-> "author",
     author_position |-> "position", author_bio |-> "bio",
     author_image |-> "author.jpg", read_time |-> "5 min read",
     content |-> "content", image |-> "image",
     meta |-> [description |-> "description", keywords |-> "keywords"]]

Posts == {Post(i, t) : i \in Ids, t \in Titles}

\* The simplified version of a post that is stored in the index.
IndexPost(post) ==
    [id |-> post["id"], title |-> post["title"], excerpt |-> post["excerpt"],
     date |-> post["date"], category |-> post["category"],
     author |-> post["author"], read_time |-> post["read_time"],
     image |-> post["image"]]

IndexEntries == {IndexPost(p) : p \in Posts}

SeqsUpTo(S, n) == UNION {[1..k -> S] : k \in 0..n}

Batches == SeqsUpTo(Posts, MaxBatch)

\* Content of index.json.  kind is "missing" (no file), "garbage" (text
\* json.load rejects with JSONDecodeError), "other" (parseable JSON that is
\* not an array of entry objects) or "array" (an array of entries, in data).
MissingFile == [kind |-> "missing", data |-> <<>>]
GarbageFile == [kind |-> "garbage", data |-> <<>>]
OtherFile == [kind |-> "other", data |-> <<>>]
json_dump(all_posts) == [kind |-> "array", data |-> all_posts]

\* ------------------------------------------------------ update_blog_index
\* Lines 848-856: the list the merge starts from.  Only called for the
\* kinds on which the read yields a list.
ReadIndex_dropsExisting(file) == <<>>

ReadIndex(file) ==
    IF file.kind = "array" THEN file.data ELSE <<>>

\* Line 873: any(p["id"] == post["id"] for p in all_posts)
IsIndexed_never(all_posts, post) == FALSE

IsIndexed(all_posts, post) ==
    \E k \in 1..Len(all_posts) : all_posts[k]["id"] = post["id"]

\* Lines 859-874, one iteration of the loop body.
AddPost_overwrites(all_posts, post) ==
    IF IsIndexed(all_posts, post)
    THEN [k \in 1..Len(all_posts) |->
            IF all_posts[k]["id"] = post["id"] THEN IndexPost(post)
            ELSE all_posts[k]]
    ELSE Append(all_posts, IndexPost(post))

AddPost(all_posts, post) ==
    IF IsIndexed(all_posts, post) THEN all_posts
    ELSE Append(all_posts, IndexPost(post))

\* Lines 859-874, the loop over the batch.
RECURSIVE AddPosts_againstFileOnly(_, _)
AddPosts_againstFileOnly(all_posts, posts) ==
    IF posts = <<>> THEN all_posts
    ELSE LET rest == AddPosts_againstFileOnly(all_posts, Tail(posts)) IN
         IF IsIndexed(all_posts, Head(posts)) THEN rest
         ELSE <<IndexPost(Head(posts))>> \o rest

RECURSIVE AddPosts(_, _)
AddPosts(all_posts, posts) ==
    IF posts = <<>> THEN all_posts
    ELSE AddPosts(AddPost(all_posts, Head(posts)), Tail(posts))

\* Line 877: list.sort(key=id, reverse=True) is stable: entries with equal
\* ids keep their relative order.
RECURSIVE InsertDesc(_, _)
InsertDesc(sorted, e) ==
    IF sorted = <<>> THEN <<e>>
    ELSE IF Head(sorted)["id"] >= e["id"]
         THEN <<Head(sorted)>> \o InsertDesc(Tail(sorted), e)
         ELSE <<e>> \o sorted

RECURSIVE SortFrom(_, _)
SortFrom(sorted, rest) ==
    IF rest = <<>> THEN sorted
    ELSE SortFrom(InsertDesc(sorted, Head(rest)), Tail(rest))

SortDesc_unsorted(all_posts) == all_posts

SortDesc(all_posts) == SortFrom(<<>>, all_posts)

\* The whole function.  On an "other" file json.load succeeds with a value
\* that is not a list of entries; the loop (p["id"], .append) or the sort
\* then raises (TypeError, KeyError or AttributeError) and nothing is
\* written.
update_blog_index(file, posts) ==
    IF file.kind = "other"
    THEN [raised |-> TRUE, file |-> file]
    ELSE [raised |-> FALSE,
          file |-> json_dump(SortDesc(AddPosts(ReadIndex(file), posts)))]

UpdateBlogIndex ==
    \E posts \in Batches :
        LET r == update_blog_index(index_file, posts) IN
        /\ index_file' = r.file
        /\ index_result' = IF r.raised THEN "raised" ELSE "returned"
        /\ index_before' = index_file
        /\ batch' = posts
        /\ repeated' = (index_result = "returned" /\ posts = batch)
        /\ UNCHANGED <<ftp_vars, topic_vars, run_vars, side_vars>>

\* ---------------------------------------------------- upload_files_to_ftp
\* Line 30: FTP_BLOG_DIR = "/blog-posts/"; line 902: its path_parts.
PathParts == <<"blog-posts">>

\* Line 905: '/' + '/'.join(path_parts[:i+1]), as a list of segments.
Prefix(i) == SubSeq(PathParts, 1, i + 1)

\* Local paths handed to the function (blog-posts/<name>); line 912 keeps
\* the bare name.
LocalPath(n) == <<"blog-posts", n>>
FileName(file_path) == file_path[Len(file_path)]

Op(c, a, o) == [cmd |-> c, arg |-> a, out |-> o]

\* Replies of the server to CWD: "ok", "perm" (ftplib.error_perm, 5xx) or
\* "fail" (any other exception: error_temp, OSError, EOFError).
CwdOutcomes(dir) ==
    IF dir \in remote_dirs THEN {"ok", "perm", "fail"} ELSE {"perm", "fail"}

MkdOutcomes(dir) ==
    IF dir \notin remote_dirs
       /\ (Len(dir) = 1 \/ SubSeq(dir, 1, Len(dir) - 1) \in remote_dirs)
    THEN {"ok", "perm", "fail"} ELSE {"perm", "fail"}

\* Line 892: the only transport the function opens is ftplib.FTP, plain
\* FTP; no setting selects another one.
Transports == {"plaintext"}

\* A caller invokes upload_files_to_ftp(file_paths).
StartUpload ==
    /\ ftp_pc \in {"idle", "done"}
    /\ calls < MaxCalls
    /\ \E n \in 0..MaxFiles : file_paths' = [k \in 1..n |-> LocalPath(k)]
    /\ calls' = calls + 1
    /\ ftp_pc' = "connect"
    /\ file_i' = 1 /\ walk_i' = 0
    /\ conn' = "none" /\ entered' = FALSE /\ pending' = FALSE
    /\ remote_cwd' = <<>> /\ ops' = <<>> /\ result' = "none"
    /\ UNCHANGED <<remote_dirs, remote_files>>
    /\ UNCHANGED <<index_vars, topic_vars, run_vars, side_vars>>

\* Line 892, ftplib.FTP(host, ...): FTP.connect.  "nosock": no transport
\* could be opened; "welcome": the socket is open and the greeting failed.
FtpConnect_retries ==
    /\ ftp_pc = "connect"
    /\ \E out \in {"ok", "nosock", "welcome"} :
        /\ ops' = Append(ops, Op("connect", <<>>, out))
        /\ conn' = IF out = "nosock" THEN "none" ELSE "open"
        /\ pending' = FALSE
        /\ ftp_pc' = IF out = "ok" THEN "login"
                      ELSE IF Len(ops) < 1 THEN "connect" ELSE "return"
    /\ UNCHANGED <<file_paths, file_i, walk_i, entered, remote_dirs,
                   remote_cwd, remote_files, result, calls>>
    /\ UNCHANGED <<index_vars, topic_vars, run_vars, side_vars>>

FtpConnect ==
    /\ ftp_pc = "connect"
    /\ \E out \in {"ok", "nosock", "welcome"} :
        /\ ops' = Append(ops, Op("connect", <<>>, out))
        /\ conn' = IF out = "nosock" THEN "none" ELSE "open"
        /\ pending' = (out # "ok")
        /\ ftp_pc' = IF out = "ok" THEN "login" ELSE "return"
    /\ UNCHANGED <<file_paths, file_i, walk_i, entered, remote_dirs,
                   remote_cwd, remote_files, result, calls>>
    /\ UNCHANGED <<index_vars, topic_vars, run_vars, side_vars>>

\* Line 892, ftplib.FTP(host, user, passwd): FTP.login inside the
\* constructor; on success the with block is entered.
FtpLogin_ignoresFailure ==
    /\ ftp_pc = "login"
    /\ \E out \in {"ok", "perm", "fail"} :
        /\ ops' = Append(ops, Op("login", <<>>, out))
        /\ entered' = TRUE
        /\ pending' = FALSE
        /\ ftp_pc' = "cwd"
    /\ UNCHANGED <<file_paths, file_i, walk_i, conn, remote_dirs,
                   remote_cwd, remote_files, result, calls>>
    /\ UNCHANGED <<index_vars, topic_vars, run_vars, side_vars>>

FtpLogin ==
    /\ ftp_pc = "login"
    /\ \E out \in {"ok", "perm", "fail"} :
        /\ ops' = Append(ops, Op("login", <<>>, out))
        /\ entered' = (out = "ok")
        /\ pending' = (out # "ok")
        /\ ftp_pc' = IF out = "ok" THEN "cwd" ELSE "return"
    /\ UNCHANGED <<file_paths, file_i, walk_i, conn, remote_dirs,
                   remote_cwd, remote_files, result, calls>>
    /\ UNCHANGED <<index_vars, topic_vars, run_vars, side_vars>>

\* Lines 896-898: ftp.cwd(FTP_BLOG_DIR).
CwdBlogDir ==
    /\ ftp_pc = "cwd"
    /\ \E out \in CwdOutcomes(PathParts) :
        /\ ops' = Append(ops, Op("cwd", PathParts, out))
        /\ remote_cwd' = IF out = "ok" THEN PathParts ELSE remote_cwd
        /\ pending' = (out = "fail")
        /\ ftp_pc' = CASE out = "ok" -> "stor"
                       [] out = "perm" -> "walk_cwd"
                       [] OTHER -> "exit"
    /\ walk_i' = 0
    /\ UNCHANGED <<file_paths, file_i, conn, entered, remote_dirs,
                   remote_files, result, calls>>
    /\ UNCHANGED <<index_vars, topic_vars, run_vars, side_vars>>

\* Position after segment walk_i of the path has been entered.
AfterSegment == IF walk_i + 1 = Len(PathParts) THEN "stor" ELSE "walk_cwd"

\* Lines 903-906: try ftp.cwd(prefix) for segment i.
WalkCwd ==
    /\ ftp_pc = "walk_cwd"
    /\ \E out \in CwdOutcomes(Prefix(walk_i)) :
        /\ ops' = Append(ops, Op("cwd", Prefix(walk_i), out))
        /\ remote_cwd' = IF out = "ok" THEN Prefix(walk_i) ELSE remote_cwd
        /\ pending' = (out = "fail")
        /\ walk_i' = IF out = "ok" THEN walk_i + 1 ELSE walk_i
        /\ ftp_pc' = CASE out = "ok" -> AfterSegment
                       [] out = "perm" -> "walk_mkd"
                       [] OTHER -> "exit"
    /\ UNCHANGED <<file_paths, file_i, conn, entered, remote_dirs,
                   remote_files, result, calls>>
    /\ UNCHANGED <<index_vars, topic_vars, run_vars, side_vars>>

\* Line 907: ftp.mkd(prefix) in the handler of error_perm; any failure here
\* leaves the with block.
WalkMkd ==
    /\ ftp_pc = "walk_mkd"
    /\ \E out \in MkdOutcomes(Prefix(walk_i)) :
        /\ ops' = Append(ops, Op("mkd", Prefix(walk_i), out))
        /\ remote_dirs' = IF out = "ok" THEN remote_dirs \cup {Prefix(walk_i)}
                          ELSE remote_dirs
        /\ pending' = (out # "ok")
        /\ ftp_pc' = IF out = "ok" THEN "walk_cwd2" ELSE "exit"
    /\ UNCHANGED <<file_paths, file_i, walk_i, conn, entered, remote_cwd,
                   remote_files, result, calls>>
    /\ UNCHANGED <<index_vars, topic_vars, run_vars, side_vars>>

\* Line 908: ftp.cwd(prefix) after the mkd.
WalkCwd2 ==
    /\ ftp_pc = "walk_cwd2"
    /\ \E out \in CwdOutcomes(Prefix(walk_i)) :
        /\ ops' = Append(ops, Op("cwd", Prefix(walk_i), out))
        /\ remote_cwd' = IF out = "ok" THEN Prefix(walk_i) ELSE remote_cwd
        /\ pending' = (out # "ok")
        /\ walk_i' = IF out = "ok" THEN walk_i + 1 ELSE walk_i
        /\ ftp_pc' = IF out = "ok" THEN AfterSegment ELSE "exit"
    /\ UNCHANGED <<file_paths, file_i, conn, entered, remote_dirs,
                   remote_files, result, calls>>
    /\ UNCHANGED <<index_vars, topic_vars, run_vars, side_vars>>

\* Lines 911-918, one iteration: open(file_path, 'rb') then STOR file_name
\* into the current remote directory.  "open" is a failure of the local
\* open, "stor" a failure of the transfer; either one leaves the loop and
\* the with block.
StorFile_removesLocal ==
    /\ ftp_pc = "stor"
    /\ file_i <= Len(file_paths)
    /\ \E out \in {"ok", "open", "stor"} :
        LET name == FileName(file_paths[file_i]) IN
        /\ ops' = Append(ops, Op(IF out = "open" THEN "open" ELSE "stor",
                                 <<name>>,
                                 IF out = "ok" THEN "ok" ELSE "fail"))
        /\ remote_files' = IF out = "ok"
                           THEN remote_files \cup
                                    {[dir |-> remote_cwd, name |-> name]}
                           ELSE remote_files
        /\ pending' = (out # "ok")
        /\ file_i' = IF out = "ok" THEN file_i + 1 ELSE file_i
        /\ ftp_pc' = IF out = "ok" THEN "stor" ELSE "exit"
        /\ local_files' = {f \in local_files : <<f.kind, f.name>> # name}
    /\ UNCHANGED <<file_paths, walk_i, conn, entered, remote_dirs,
                   remote_cwd, result, calls>>
    /\ UNCHANGED <<report, now, topic_i, gen_pc, image_url, post_id,
                   generated_posts, raised>>
    /\ UNCHANGED <<index_vars, topic_vars, side_vars>>

StorFile ==
    /\ ftp_pc = "stor"
    /\ file_i <= Len(file_paths)
    /\ \E out \in {"ok", "open", "stor"} :
        LET name == FileName(file_paths[file_i]) IN
        /\ ops' = Append(ops, Op(IF out = "open" THEN "open" ELSE "stor",
                                 <<name>>,
                                 IF out = "ok" THEN "ok" ELSE "fail"))
        /\ remote_files' = IF out = "ok"
                           THEN remote_files \cup
                                    {[dir |-> remote_cwd, name |-> name]}
                           ELSE remote_files
        /\ pending' = (out # "ok")
        /\ file_i' = IF out = "ok" THEN file_i + 1 ELSE file_i
        /\ ftp_pc' = IF out = "ok" THEN "stor" ELSE "exit"
    /\ UNCHANGED <<file_paths, walk_i, conn, entered, remote_dirs,
                   remote_cwd, result, calls>>
    /\ UNCHANGED <<index_vars, topic_vars, run_vars, side_vars>>

\* Line 911: the for loop is exhausted.
FilesDone ==
    /\ ftp_pc = "stor"
    /\ file_i > Len(file_paths)
    /\ ftp_pc' = "exit"
    /\ UNCHANGED <<file_paths, file_i, walk_i, conn, entered, pending,
                   remote_dirs, remote_cwd, remote_files, ops, result, calls>>
    /\ UNCHANGED <<index_vars, topic_vars, run_vars, side_vars>>

\* Line 892/919, leaving the with block: FTP.__exit__ sends QUIT, swallows
\* OSError and EOFError ("oserror"), lets an error reply of the server
\* propagate ("reply"), and closes the socket in every case.
FtpExit ==
    /\ ftp_pc = "exit"
    /\ \E out \in {"ok", "oserror", "reply"} :
        /\ ops' = Append(ops, Op("quit", <<>>, out))
        /\ pending' = (pending \/ out = "reply")
    /\ conn' = "closed"
    /\ ftp_pc' = "return"
    /\ UNCHANGED <<file_paths, file_i, walk_i, entered, remote_dirs,
                   remote_cwd, remote_files, result, calls>>
    /\ UNCHANGED <<index_vars, topic_vars, run_vars, side_vars>>

\* Lines 920-924: return True, or return False from the except clause.
\* When the constructor raised, the with block was never entered and the
\* function closes nothing: a socket that was opened is left to the
\* garbage collector, which may or may not have finalised it on return.
FtpReturn_alwaysTrue ==
    /\ ftp_pc = "return"
    /\ result' = "True"
    /\ conn' \in IF conn = "open" THEN {"open", "closed"} ELSE {conn}
    /\ ftp_pc' = "done"
    /\ UNCHANGED <<file_paths, file_i, walk_i, entered, pending, remote_dirs,
                   remote_cwd, remote_files, ops, calls>>
    /\ UNCHANGED <<index_vars, topic_vars, run_vars, side_vars>>

FtpReturn ==
    /\ ftp_pc = "return"
    /\ result' = IF pending THEN "False" ELSE "True"
    /\ conn' \in IF conn = "open" THEN {"open", "closed"} ELSE {conn}
    /\ ftp_pc' = "done"
    /\ UNCHANGED <<file_paths, file_i, walk_i, entered, pending, remote_dirs,
                   remote_cwd, remote_files, ops, calls>>
    /\ UNCHANGED <<index_vars, topic_vars, run_vars, side_vars>>

\* ------------------------------------------- get_current_logistics_topics
MaxPool == 4        \* longest JSON array an external service answers with
MaxArticles == 1    \* most articles one scraped page carries

\* Line 37 / line 1022: POSTS_TO_GENERATE of each revision.
PostsToGenerate == IF rev = 1 THEN 1 ELSE 3

NoCategory == "none"
Summaries == {"", "s1"}

\* A topic dictionary; category NoCategory stands for an absent key.
Topic(t, s, c) ==
    [title |-> t, summary |-> s, relevance |-> "relevance", category |-> c]

TopicSet == {Topic(t, s, NoCategory) : t \in Titles, s \in Summaries}

\* Lines 231 and 338: any(term in title.lower() or term in summary.lower()
\* for term in [...]).  Title "t1" and summary "s1" stand for texts that
\* hold one of the terms, "t2" and "" for texts that hold none.
HasTerm(text) == text \in {"t1", "s1"}
IsRelevant(topic) == HasTerm(topic.title) \/ HasTerm(topic.summary)

\* Values json.loads can yield from an answer: a list of topics, an object
\* (a dict with size keys), or a scalar (number, true, false, null).
ListVal(items) == [kind |-> "list", items |-> items, size |-> Len(items)]
ObjectVal(n) == [kind |-> "object", items |-> <<>>, size |-> n]
ScalarVal == [kind |-> "scalar", items |-> <<>>, size |-> 0]
NoVal == [kind |-> "none", items |-> <<>>, size |-> 0]

JsonValues ==
    {ListVal(s) : s \in SeqsUpTo(TopicSet, MaxPool)}
        \cup {ObjectVal(n) : n \in 1..2} \cup {ScalarVal}

\* Outcomes of one generative call followed by the JSON extraction: the
\* call raises ("error"), the text does not parse ("unparseable"), or it
\* parses to a value.
Answers ==
    {[out |-> "error", value |-> NoVal], [out |-> "unparseable", value |-> NoVal]}
        \cup {[out |-> "json", value |-> v] : v \in JsonValues}

Log(tier, out) == Append(tier_log, [tier |-> tier, out |-> out])

\* First tier of the function each revision has after tier t.
NextTier_skipsSynthetic(t) ==
    CASE t = "t1" -> "t3"
      [] t = "t3" -> IF rev = 1 THEN "t4" ELSE "fallback"
      [] OTHER -> "fallback"

NextTier(t) ==
    CASE t = "t1" -> "t2"
      [] t = "t2" -> "t3"
      [] t = "t3" -> IF rev = 1 THEN "t4" ELSE "fallback"
      [] OTHER -> "fallback"

\* Line 948: main calls get_current_logistics_topics().
MainFetchTopics ==
    /\ main_pc = "start"
    /\ main_pc' = "topics"
    /\ topic_pc' = "t1"
    /\ loop_i' = 0 /\ acc' = <<>> /\ tier_log' = <<>>
    /\ UNCHANGED <<rev, topics, selected>>
    /\ UNCHANGED <<index_vars, ftp_vars, run_vars, side_vars>>

\* Lines 129-247 (revision 2: 1113-1210): the browsing tier.  Revision 1
\* keeps the relevant candidates and returns them when they are at least 3;
\* a value that is not a list of dictionaries raises inside the outer try.
\* Revision 2 returns whatever parsed and has a length.
Tier1Returns(a) ==
    /\ a.out = "json"
    /\ IF rev = 1
       THEN /\ a.value.kind = "list"
            /\ Len(SelectSeq(a.value.items, IsRelevant)) >= 3
       ELSE a.value.kind \in {"list", "object"}

Tier1Value(a) ==
    IF rev = 1 THEN ListVal(SelectSeq(a.value.items, IsRelevant)) ELSE a.value

Tier1 ==
    /\ main_pc = "topics" /\ topic_pc = "t1"
    /\ \E a \in Answers :
        /\ tier_log' = Log("t1", IF Tier1Returns(a) THEN "returned" ELSE "failed")
        /\ IF Tier1Returns(a)
           THEN topics' = Tier1Value(a) /\ topic_pc' = "returned"
           ELSE topics' = topics /\ topic_pc' = NextTier("t1")
    /\ UNCHANGED <<rev, main_pc, loop_i, acc, selected>>
    /\ UNCHANGED <<index_vars, ftp_vars, run_vars, side_vars>>

\* Lines 250-305 (revision 2: 1213-1266): the synthetic generation tier.
\* json.loads and len(topics) run under a bare except; whatever parsed and
\* has a length is returned as it is.
Tier2Returns(a) == a.out = "json" /\ a.value.kind \in {"list", "object"}

Tier2 ==
    /\ main_pc = "topics" /\ topic_pc = "t2"
    /\ \E a \in Answers :
        /\ tier_log' = Log("t2", IF Tier2Returns(a) THEN "returned" ELSE "failed")
        /\ IF Tier2Returns(a)
           THEN topics' = a.value /\ topic_pc' = "returned"
           ELSE topics' = topics /\ topic_pc' = NextTier("t2")
    /\ loop_i' = 0 /\ acc' = <<>>
    /\ UNCHANGED <<rev, main_pc, selected>>
    /\ UNCHANGED <<index_vars, ftp_vars, run_vars, side_vars>>

\* Lines 313-318 (revision 2: 1274 and 1297): the pages scraped, and the
\* slice taken of each page's articles (lines 327, 1279, 1302).
NumSites == IF rev = 1 THEN 4 ELSE 2
ArticleCap == IF rev = 1 THEN 3 ELSE 5

Take(s, n) == SubSeq(s, 1, IF Len(s) < n THEN Len(s) ELSE n)

\* What one requests.get gives: an exception ("error"), a status other than
\* 200 ("non200"), or a page with articles.
Pages ==
    {[out |-> "error", articles |-> <<>>], [out |-> "non200", articles |-> <<>>]}
        \cup {[out |-> "page", articles |-> s] :
                s \in SeqsUpTo(TopicSet, MaxArticles)}

\* Articles of one page that are collected: revision 1 keeps the relevant
\* ones (line 338), revision 2 keeps all of them.
Collected(page) ==
    IF rev = 1 THEN SelectSeq(Take(page.articles, ArticleCap), IsRelevant)
    ELSE Take(page.articles, ArticleCap)

\* Lines 320-346 (revision 2: 1274-1316), one page.  In revision 1 an
\* exception is caught per page; in revision 2 it ends the whole tier, and
\* the second page is fetched only while fewer than 3 articles are held.
ScrapeSite ==
    /\ main_pc = "topics" /\ topic_pc = "t3"
    /\ loop_i < NumSites
    /\ IF rev = 2 /\ loop_i = 1 /\ Len(acc) >= 3
       THEN /\ loop_i' = loop_i + 1
            /\ UNCHANGED <<acc, topic_pc, tier_log>>
       ELSE \E page \in Pages :
            IF rev = 2 /\ page.out = "error"
            THEN /\ topic_pc' = NextTier("t3")
                 /\ tier_log' = Log("t3", "failed")
                 /\ loop_i' = 0 /\ acc' = <<>>
            ELSE /\ acc' = acc \o Collected(page)
                 /\ loop_i' = loop_i + 1
                 /\ UNCHANGED <<topic_pc, tier_log>>
    /\ UNCHANGED <<rev, main_pc, topics, selected>>
    /\ UNCHANGED <<index_vars, ftp_vars, run_vars, side_vars>>

\* Lines 348-351: at least 3 articles (revision 2, line 1318: at least 1)
\* are returned; fewer are discarded.
ScrapeAccepted == IF rev = 1 THEN Len(acc) >= 3 ELSE Len(acc) > 0

ScrapeDone ==
    /\ main_pc = "topics" /\ topic_pc = "t3"
    /\ loop_i = NumSites
    /\ IF ScrapeAccepted
       THEN /\ topics' = ListVal(acc) /\ topic_pc' = "returned"
            /\ tier_log' = Log("t3", "returned")
       ELSE /\ topics' = topics /\ topic_pc' = NextTier("t3")
            /\ tier_log' = Log("t3", "failed")
    /\ loop_i' = 0 /\ acc' = <<>>
    /\ UNCHANGED <<rev, main_pc, selected>>
    /\ UNCHANGED <<index_vars, ftp_vars, run_vars, side_vars>>

\* Line 360: random.sample(BLOG_CATEGORIES, min(5, len(BLOG_CATEGORIES)))
\* gives 5 distinct categories, named here by their position.
NumCategories == 5
Category(i) == <<"category 1", "category 2", "category 3", "category 4",
                 "category 5">>[i]

\* Lines 363-410, one category: the answer parses to a topic dictionary,
\* which gets the category and is collected, or anything else happens
\* (the call raises, the text does not parse, the value is not a
\* dictionary) and the category is skipped.
CategoryTopic ==
    /\ main_pc = "topics" /\ topic_pc = "t4"
    /\ loop_i < NumCategories
    /\ \/ acc' = acc
       \/ \E t \in TopicSet :
            acc' = Append(acc, [t EXCEPT !.category = Category(loop_i + 1)])
    /\ loop_i' = loop_i + 1
    /\ UNCHANGED <<rev, main_pc, topic_pc, tier_log, topics, selected>>
    /\ UNCHANGED <<index_vars, ftp_vars, run_vars, side_vars>>

\* Lines 412-413.
CategoryDone ==
    /\ main_pc = "topics" /\ topic_pc = "t4"
    /\ loop_i = NumCategories
    /\ IF acc # <<>>
       THEN /\ topics' = ListVal(acc) /\ topic_pc' = "returned"
            /\ tier_log' = Log("t4", "returned")
       ELSE /\ topics' = topics /\ topic_pc' = "fallback"
            /\ tier_log' = Log("t4", "failed")
    /\ loop_i' = 0 /\ acc' = <<>>
    /\ UNCHANGED <<rev, main_pc, selected>>
    /\ UNCHANGED <<index_vars, ftp_vars, run_vars, side_vars>>

\* Lines 417-445 (revision 2: 1328-1356): the five hardcoded topics.
FallbackTopics ==
    [k \in 1..5 |->
        Topic(<<"fallback 1", "fallback 2", "fallback 3", "fallback 4",
                "fallback 5">>[k], "fallback summary", NoCategory)]

Fallback ==
    /\ main_pc = "topics" /\ topic_pc = "fallback"
    /\ topics' = ListVal(FallbackTopics)
    /\ topic_pc' = "returned"
    /\ tier_log' = Log("fallback", "returned")
    /\ UNCHANGED <<rev, main_pc, loop_i, acc, selected>>
    /\ UNCHANGED <<index_vars, ftp_vars, run_vars, side_vars>>

\* ------------------------------------------------- main: topic selection
Injections(n, m) ==
    {f \in [1..n -> 1..m] : \A i, j \in 1..n : i # j => f[i] # f[j]}

\* random.sample(population, n): n distinct positions, in any order.
Sample(items, n) ==
    {[k \in 1..n |-> items[f[k]]] : f \in Injections(n, Len(items))}

\* Lines 951-954.
SelectedTopics_withReplacement(items, n) ==
    IF Len(items) > n THEN Sample(items, n)
    ELSE [1..Len(items) -> {items[k] : k \in 1..Len(items)}]

SelectedTopics(items, n) ==
    IF Len(items) > n THEN Sample(items, n) ELSE {items}

\* Lines 950-962.  A dictionary returned by a tier is no sequence:
\* random.sample raises TypeError on it, and iterating it gives its keys,
\* on which topic['title'] raises TypeError; main has no handler.
SelectTopics ==
    /\ main_pc = "topics" /\ topic_pc = "returned"
    /\ topic_pc' = "idle"
    /\ IF topics.kind = "list"
       THEN /\ selected' \in SelectedTopics(topics.items, PostsToGenerate)
            /\ main_pc' = "loop"
       ELSE /\ selected' = <<>>
            /\ main_pc' = "crashed"
    /\ UNCHANGED <<rev, loop_i, acc, tier_log, topics>>
    /\ UNCHANGED <<index_vars, ftp_vars, run_vars, side_vars>>

\* ------------------------------------------------------ get_relevant_image
NoneValue == "None"     \* Python's None
Unset == "unset"        \* a local variable not yet bound

GeneratedUrl == "https://generated/image"
\* Lines 519-527 and 1369-1387: the tables of stock images.
UnsplashUrl(term) ==
    CASE term = "truck driver" -> "https://images.unsplash.com/photo-1589829545856"
      [] term = "semi truck" -> "https://images.unsplash.com/photo-1586541250441"
      [] term = "driver" -> "https://images.unsplash.com/photo-1586528116311"
      [] OTHER -> "https://images.unsplash.com/photo-1494412574643"

\* Outcomes of client.images.generate (lines 476-487): the call raises, the
\* response has an empty data list, its first item has no url, or it has one.
ImageOutcomes == {"error", "nodata", "nullurl", "url"}

\* Lines 496-507: the search term chosen from title and summary.  Title
\* "t1" stands for a text that holds "driver"; the other texts hold none of
\* the five words.
SearchTerm(topic) ==
    IF topic.title = "t1" THEN "truck driver" ELSE "semi truck"

\* Lines 1397-1413: the first key of the table found in the lowered title,
\* else the default.
TableKey(topic) == IF topic.title = "t1" THEN "driver" ELSE "logistics"

\* Lines 447-552: revision 1 returns response.data[0].url as it is, and the
\* table entry of the search term when the try block raised.  Lines
\* 1358-1413: revision 2 makes no call and reads its table.
get_relevant_image(topic, outcome) ==
    IF rev = 1
    THEN CASE outcome = "url" -> GeneratedUrl
           [] outcome = "nullurl" -> NoneValue
           [] OTHER -> UnsplashUrl(SearchTerm(topic))
    ELSE UnsplashUrl(TableKey(topic))

\* -------------------------------------------------- main: the topic loop
RecordFile(post) ==
    [kind |-> "record", name |-> post["id"], id |-> post["id"],
     title |-> post.title]

\* Lines 734-839: post-{post_id}.html, holding share_url of the same id.
HtmlFile(post) ==
    [kind |-> "html", name |-> post["id"], id |-> post["id"],
     title |-> post.title]

\* open(path, 'w') replaces a file of the same name.
WriteFile_keepsExisting(files, f) ==
    IF \E g \in files : g.kind = f.kind /\ g.name = f.name THEN files
    ELSE files \cup {f}

WriteFile(files, f) ==
    {g \in files : ~(g.kind = f.kind /\ g.name = f.name)} \cup {f}

CurrentTopic == selected[topic_i]

\* Lines 699-716: the post dictionary.
CurrentPost ==
    [Post(post_id, CurrentTopic.title) EXCEPT !.image = image_url]

Crash_skipsTopic(step) ==
    /\ main_pc' = main_pc
    /\ raised' = step
    /\ gen_pc' = "idle"

Crash(step) ==
    /\ main_pc' = "crashed"
    /\ raised' = step
    /\ gen_pc' = "idle"

\* Lines 958-962 and 554-611: the loop takes the next topic and
\* generate_blog_post starts.
StartTopic ==
    /\ main_pc = "loop" /\ gen_pc = "idle"
    /\ topic_i < Len(selected)
    /\ topic_i' = topic_i + 1
    /\ gen_pc' = "meta"
    /\ image_url' = Unset /\ post_id' = 0
    /\ UNCHANGED <<report, now, generated_posts, local_files, raised>>
    /\ UNCHANGED <<index_vars, ftp_vars, topic_vars, side_vars>>

\* One client.chat.completions.create call and the read of its text: it
\* returns, or it raises; no handler surrounds it, here or in main.
GenerativeCall(step, next) ==
    /\ \/ /\ gen_pc' = next
          /\ UNCHANGED <<main_pc, raised>>
       \/ Crash(step)
    /\ UNCHANGED <<report, now, topic_i, image_url, post_id,
                   generated_posts, local_files>>
    /\ UNCHANGED <<index_vars, ftp_vars, side_vars>>
    /\ UNCHANGED <<rev, topic_pc, loop_i, acc, tier_log, topics, selected>>

\* Lines 613-628.
GenMeta ==
    /\ main_pc = "loop" /\ gen_pc = "meta"
    /\ GenerativeCall("meta", "keywords")

\* Lines 630-643.
GenKeywords ==
    /\ main_pc = "loop" /\ gen_pc = "keywords"
    /\ GenerativeCall("keywords", "content")

\* Lines 645-681.
GenContent ==
    /\ main_pc = "loop" /\ gen_pc = "content"
    /\ GenerativeCall("content", "image")

\* Line 684.
ResolveImage ==
    /\ main_pc = "loop" /\ gen_pc = "image"
    /\ \E o \in ImageOutcomes :
          image_url' = get_relevant_image(CurrentTopic, o)
    /\ gen_pc' = "assemble"
    /\ UNCHANGED <<report, now, topic_i, post_id, generated_posts,
                   local_files, raised>>
    /\ UNCHANGED <<index_vars, ftp_vars, topic_vars, side_vars>>

\* The wall clock passes a second; the run reads it at line 696 only.
Tick ==
    /\ main_pc = "loop" /\ gen_pc = "assemble"
    /\ now < MaxId
    /\ now' = now + 1
    /\ UNCHANGED <<report, topic_i, gen_pc, image_url, post_id,
                   generated_posts, local_files, raised>>
    /\ UNCHANGED <<index_vars, ftp_vars, topic_vars, side_vars>>

\* Lines 686-718: post_id = int(time.time()) and the post is assembled.
AssemblePost ==
    /\ main_pc = "loop" /\ gen_pc = "assemble"
    /\ post_id' = now
    /\ gen_pc' = "save"
    /\ UNCHANGED <<report, now, topic_i, image_url, generated_posts,
                   local_files, raised>>
    /\ UNCHANGED <<index_vars, ftp_vars, topic_vars, side_vars>>

\* Lines 720-732, called at line 966: the record is written, or open or
\* json.dump raises.
SaveBlogPost ==
    /\ main_pc = "loop" /\ gen_pc = "save"
    /\ \/ /\ local_files' = WriteFile(local_files, RecordFile(CurrentPost))
          /\ gen_pc' = "html"
          /\ UNCHANGED <<main_pc, raised>>
       \/ /\ Crash("save")
          /\ UNCHANGED local_files
    /\ UNCHANGED <<report, now, topic_i, image_url, post_id,
                   generated_posts>>
    /\ UNCHANGED <<index_vars, ftp_vars, side_vars>>
    /\ UNCHANGED <<rev, topic_pc, loop_i, acc, tier_log, topics, selected>>

\* Lines 734-839 and 969-972: the template is read and the document written,
\* then the post is appended to generated_posts; or reading the template
\* (line 742) or writing the document raises.
CreateBlogPostHtml_appendsUnrendered ==
    /\ main_pc = "loop" /\ gen_pc = "html"
    /\ \/ /\ local_files' = WriteFile(local_files, HtmlFile(CurrentPost))
          /\ generated_posts' = Append(generated_posts, CurrentPost)
          /\ gen_pc' = "idle"
          /\ UNCHANGED <<main_pc, raised>>
       \/ /\ generated_posts' = Append(generated_posts, CurrentPost)
          /\ gen_pc' = "idle"
          /\ UNCHANGED <<main_pc, raised, local_files>>
    /\ UNCHANGED <<report, now, topic_i, image_url, post_id>>
    /\ UNCHANGED <<index_vars, ftp_vars, side_vars>>
    /\ UNCHANGED <<rev, topic_pc, loop_i, acc, tier_log, topics, selected>>

CreateBlogPostHtml ==
    /\ main_pc = "loop" /\ gen_pc = "html"
    /\ \/ /\ local_files' = WriteFile(local_files, HtmlFile(CurrentPost))
          /\ generated_posts' = Append(generated_posts, CurrentPost)
          /\ gen_pc' = "idle"
          /\ UNCHANGED <<main_pc, raised>>
       \/ /\ Crash("template")
          /\ UNCHANGED <<local_files, generated_posts>>
    /\ UNCHANGED <<report, now, topic_i, image_url, post_id>>
    /\ UNCHANGED <<index_vars, ftp_vars, side_vars>>
    /\ UNCHANGED <<rev, topic_pc, loop_i, acc, tier_log, topics, selected>>

\* Line 975: update_blog_index(generated_posts) after the last topic.
MainUpdateIndex_afterEachTopic ==
    /\ main_pc = "loop" /\ gen_pc = "idle"
    /\ topic_i >= 1
    /\ LET r == update_blog_index(index_file, generated_posts) IN
        /\ index_file' = r.file
        /\ index_result' = IF r.raised THEN "raised" ELSE "returned"
        /\ index_before' = index_file
        /\ batch' = generated_posts
        /\ repeated' = FALSE
        /\ main_pc' = IF r.raised THEN "crashed"
                      ELSE IF topic_i = Len(selected) THEN "upload"
                      ELSE "loop"
        /\ raised' = IF r.raised THEN "index" ELSE raised
    /\ UNCHANGED <<report, now, topic_i, gen_pc, image_url, post_id,
                   generated_posts, local_files>>
    /\ UNCHANGED <<ftp_vars, side_vars>>
    /\ UNCHANGED <<rev, topic_pc, loop_i, acc, tier_log, topics, selected>>

MainUpdateIndex_skipped ==
    /\ main_pc = "loop" /\ gen_pc = "idle"
    /\ topic_i = Len(selected)
    /\ main_pc' = "upload"
    /\ UNCHANGED <<report, now, topic_i, gen_pc, image_url, post_id,
                   generated_posts, local_files, raised>>
    /\ UNCHANGED <<index_vars, ftp_vars, side_vars>>
    /\ UNCHANGED <<rev, topic_pc, loop_i, acc, tier_log, topics, selected>>

MainUpdateIndex ==
    /\ main_pc = "loop" /\ gen_pc = "idle"
    /\ topic_i = Len(selected)
    /\ LET r == update_blog_index(index_file, generated_posts) IN
        /\ index_file' = r.file
        /\ index_result' = IF r.raised THEN "raised" ELSE "returned"
        /\ index_before' = index_file
        /\ batch' = generated_posts
        /\ repeated' = FALSE
        /\ main_pc' = IF r.raised THEN "crashed" ELSE "upload"
        /\ raised' = IF r.raised THEN "index" ELSE raised
    /\ UNCHANGED <<report, now, topic_i, gen_pc, image_url, post_id,
                   generated_posts, local_files>>
    /\ UNCHANGED <<ftp_vars, side_vars>>
    /\ UNCHANGED <<rev, topic_pc, loop_i, acc, tier_log, topics, selected>>

\* ------------------------------------------------ main: upload and report
\* A picture somebody put into blog-posts/, and index.json, as directory
\* entries.
ImageAsset == [kind |-> "image", name |-> 0, id |-> 0, title |-> ""]
IndexJson == [kind |-> "index", name |-> 0, id |-> 0, title |-> ""]

\* Line 931: LOCAL_BLOG_DIR.glob("*.*"), every file of the directory.
AllFiles ==
    local_files \cup (IF index_file.kind = "missing" THEN {} ELSE {IndexJson})

PathOf(f) == LocalPath(<<f.kind, f.name>>)

\* The orders in which glob can yield the files.
Orderings(S) ==
    {s \in [1..Cardinality(S) -> S] :
        \A i, j \in 1..Cardinality(S) : i # j => s[i] # s[j]}

\* Lines 978 and 926-938, then 886-891: upload_blog_files lists the
\* directory and returns False when it is empty, else it calls
\* upload_files_to_ftp with all files.
MainUploadBlogFiles ==
    /\ main_pc = "upload" /\ ftp_pc = "idle"
    /\ IF AllFiles = {}
       THEN /\ result' = "False"
            /\ main_pc' = "report"
            /\ UNCHANGED <<ftp_pc, file_paths, file_i, walk_i, conn, entered,
                           pending, remote_cwd, ops, calls>>
       ELSE /\ \E s \in Orderings(AllFiles) :
                  file_paths' = [k \in 1..Len(s) |-> PathOf(s[k])]
            /\ calls' = calls + 1
            /\ ftp_pc' = "connect"
            /\ file_i' = 1 /\ walk_i' = 0
            /\ conn' = "none" /\ entered' = FALSE /\ pending' = FALSE
            /\ remote_cwd' = <<>> /\ ops' = <<>> /\ result' = "none"
            /\ main_pc' = "uploading"
    /\ UNCHANGED <<remote_dirs, remote_files>>
    /\ UNCHANGED <<rev, topic_pc, loop_i, acc, tier_log, topics, selected>>
    /\ UNCHANGED <<index_vars, run_vars, side_vars>>

\* Lines 980-983: the two messages main can end with.
MainReport ==
    /\ \/ main_pc = "report"
       \/ main_pc = "uploading" /\ ftp_pc = "done"
    /\ report' = IF result = "True" THEN "success" ELSE "upload_error"
    /\ main_pc' = "done"
    /\ UNCHANGED <<now, topic_i, gen_pc, image_url, post_id,
                   generated_posts, local_files, raised>>
    /\ UNCHANGED <<rev, topic_pc, loop_i, acc, tier_log, topics, selected>>
    /\ UNCHANGED <<index_vars, ftp_vars, side_vars>>

LoopIdle ==
    /\ now = 1 /\ topic_i = 0 /\ gen_pc = "idle"
    /\ image_url = Unset /\ post_id = 0
    /\ generated_posts = <<>> /\ raised = "none"
    /\ report = "none"

RunIdle == LoopIdle /\ local_files = {}

\* --------------------------------------------------- the relevance filter
MaxText == 2        \* longest title or summary handed to the filters

\* Characters of a text: two letters in both cases, and other letters.
Chars == {"s", "S", "t", "r", "x"}

\* str.lower() on one character.
LowerChar(c) ==
    CASE c = "S" -> "s"
      [] c = "F" -> "f"
      [] OTHER -> c

\* str.lower().
Lower(text) == [k \in 1..Len(text) |-> LowerChar(text[k])]

\* term in text: term is a contiguous part of text.
Contains(text, term) ==
    \E i \in 0..(Len(text) - Len(term)) :
        SubSeq(text, i + 1, i + Len(term)) = term

\* Lines 231 and 338: the literal list of eight lowercase words, here two
\* lowercase words over Chars.
Terms == {<<"s">>, <<"t", "r">>}

Texts == SeqsUpTo(Chars, MaxText)
Candidates == [title : Texts, summary : Texts]
NoCandidate == [title |-> <<>>, summary |-> <<>>]

\* Lines 229-231: the filter of the browsing tier.
BrowsingFilter_caseSensitive(topic) ==
    \E term \in Terms :
        Contains(topic.title, term) \/ Contains(topic.summary, term)

BrowsingFilter(topic) ==
    LET title == Lower(topic.title)
        summary == Lower(topic.summary)
    IN  \E term \in Terms : Contains(title, term) \/ Contains(summary, term)

\* Line 338: the filter of the scraping tier.
ScrapingFilter(topic) ==
    \E term \in Terms :
        Contains(Lower(topic.title), term)
            \/ Contains(Lower(topic.summary), term)

\* Both filters applied to one candidate.
NoVerdict == [applied |-> FALSE, browsing |-> FALSE, scraping |-> FALSE]

ApplyFilters ==
    /\ ~passed.applied
    /\ passed' = [applied |-> TRUE,
                  browsing |-> BrowsingFilter(cand),
                  scraping |-> ScrapingFilter(cand)]
    /\ UNCHANGED cand
    /\ UNCHANGED <<index_vars, ftp_vars, topic_vars, run_vars, call_vars,
                   scope>>

FilterIdle == cand = NoCandidate /\ passed = NoVerdict

\* ------------------------------------------- image and category of a post
MaxWords == 2       \* most words in the title of a topic

\* Words the title and the summary of a topic are made of.
Words ==
    {<<"F", "u", "e", "l">>,
     <<"s", "u", "s", "t", "a", "i", "n", "a", "b", "i", "l", "i", "t", "y">>,
     <<"s", "a", "f", "e", "t", "y">>,
     <<"t", "e", "c", "h", "n", "o", "l", "o", "g", "y">>,
     <<"d", "r", "i", "v", "e", "r">>,
     <<"m", "a", "i", "n", "t", "e", "n", "a", "n", "c", "e">>,
     <<"r", "a", "t", "e", "s">>,
     <<"g", "r", "e", "e", "n">>}

\* Words joined by single spaces.
RECURSIVE Join(_)
Join(ws) ==
    IF ws = <<>> THEN <<>>
    ELSE IF Len(ws) = 1 THEN ws[1]
    ELSE ws[1] \o <<" ">> \o Join(Tail(ws))

ArgTitles == {Join(ws) : ws \in SeqsUpTo(Words, MaxWords)}
ArgSummaries == {<<>>, <<"f", "u", "e", "l">>,
                 <<"t", "e", "c", "h", "n", "o", "l", "o", "g", "y">>}

\* A topic dictionary as the functions receive it; textual is FALSE when
\* the JSON held null in place of the title, category is NoCategory when
\* the dictionary has no "category" key.
Args ==
    [title : ArgTitles, summary : ArgSummaries,
     category : {NoCategory, "Safety", "Logistics Insights"},
     textual : {TRUE}]
    \cup [title : {<<>>}, summary : {<<>>}, category : {NoCategory},
          textual : {FALSE}]
NoArg == [title |-> <<>>, summary |-> <<>>, category |-> NoCategory,
          textual |-> TRUE]

\* Lines 498-507: the keywords of the if/elif chain, in its order, each
\* with the search term it appends.
search_chain ==
    <<
        [keyword |-> <<"d", "r", "i", "v", "e", "r">>,
         term |-> "truck driver"],
        [keyword |-> <<"m", "a", "i", "n", "t", "e", "n", "a", "n", "c", "e">>,
         term |-> "truck maintenance"],
        [keyword |-> <<"f", "u", "e", "l">>,
         term |-> "truck fuel"],
        [keyword |-> <<"s", "a", "f", "e", "t", "y">>,
         term |-> "truck safety"],
        [keyword |-> <<"t", "e", "c", "h", "n", "o", "l", "o", "g", "y">>,
         term |-> "truck technology"]
    >>

\* Lines 498-506: keyword in topic_title.lower() or in
\* topic_summary.lower().
InTopic(keyword, topic) ==
    \/ Contains(Lower(topic.title), keyword)
    \/ Contains(Lower(topic.summary), keyword)

\* Lines 495-510: the term of the first branch taken, then the general one.
search_terms(topic) ==
    LET hits == {k \in 1..Len(search_chain) :
                    InTopic(search_chain[k].keyword, topic)}
        first == CHOOSE k \in hits : \A j \in hits : k <= j
    IN  <<IF hits = {} THEN "semi truck" ELSE search_chain[first].term,
          "commercial truck">>

\* Lines 527-535.
direct_unsplash_urls ==
    <<
        [term |-> "truck driver",
         url |-> "photo-1589829545856-d10d557cf95f"],
        [term |-> "truck maintenance",
         url |-> "photo-1530046339915-78e95328dd1f"],
        [term |-> "truck fuel",
         url |-> "photo-1545249390-6bdfa286032f"],
        [term |-> "truck safety",
         url |-> "photo-1517048676732-d65bc937f952"],
        [term |-> "truck technology",
         url |-> "photo-1581092921461-7031e4f48eda"],
        [term |-> "semi truck",
         url |-> "photo-1586541250441-b7e0f1d7e6a6"],
        [term |-> "commercial truck",
         url |-> "photo-1601584115197-04ecc0da31d7"]
    >>

\* Lines 547 and 552: the literal returned when nothing else was.
DefaultSemiTruck == "photo-1586541250441-b7e0f1d7e6a6"

\* Lines 513-547: the URL of the first search term the dictionary holds.
fallback_image(topic) ==
    LET terms == search_terms(topic)
        known(term) == \E e \in 1..Len(direct_unsplash_urls) :
                          direct_unsplash_urls[e].term = term
        hits == {k \in 1..Len(terms) : known(terms[k])}
        first == CHOOSE k \in hits : \A j \in hits : k <= j
        entry == CHOOSE e \in 1..Len(direct_unsplash_urls) :
                    direct_unsplash_urls[e].term = terms[first]
    IN  IF hits = {} THEN DefaultSemiTruck
        ELSE direct_unsplash_urls[entry].url

\* Lines 1368-1386: the dictionary images, in insertion order.
images ==
    <<
        [keyword |-> <<"f", "u",
                       "e", "l">>,
         url |-> "photo-1545249390-6bdfa286032f"],
        [keyword |-> <<"e", "l", "e", "c",
                       "t", "r", "i", "c">>,
         url |-> "photo-1593941707882-a5bba13938c2"],
        [keyword |-> <<"a", "i">>, url |-> "photo-1677442136019-21780ecad995"],
        [keyword |-> <<"d", "r", "i",
                       "v", "e", "r">>,
         url |-> "photo-1586528116311-ad8dd3c8310d"],
        [keyword |-> <<"w", "a", "r", "e",
                       "h", "o", "u", "s", "e">>,
         url |-> "photo-1553413077-190dd305871c"],
        [keyword |-> <<"s", "u", "p", "p", "l", "y",
                       " ", "c", "h", "a", "i", "n">>,
         url |-> "photo-1566633806327-68e152aaf26d"],
        [keyword |-> <<"t", "e", "c", "h", "n",
                       "o", "l", "o", "g", "y">>,
         url |-> "photo-1518770660439-4636190af475"],
        [keyword |-> <<"t", "r",
                       "u", "c", "k">>,
         url |-> "photo-1519003722824-194d4455a60c"],
        [keyword |-> <<"d", "e", "l", "i",
                       "v", "e", "r", "y">>,
         url |-> "photo-1580674684081-7617fbf3d745"],
        [keyword |-> <<"s", "a", "f",
                       "e", "t", "y">>,
         url |-> "photo-1577041677443-8bbdfd8cce62"],
        [keyword |-> <<"s", "u", "s", "t", "a", "i", "n",
                       "a", "b", "i", "l", "i", "t", "y">>,
         url |-> "photo-1592833159067-4173416fc26a"],
        [keyword |-> <<"l", "o", "g", "i",
                       "s", "t", "i", "c", "s">>,
         url |-> "photo-1494412574643-ff11b0a5c1c3"],
        [keyword |-> <<"r", "e", "g", "u", "l",
                       "a", "t", "i", "o", "n", "s">>,
         url |-> "photo-1589829545856-d10d557cf95f"],
        [keyword |-> <<"e", "-", "c", "o", "m",
                       "m", "e", "r", "c", "e">>,
         url |-> "photo-1584536902949-fae88d5950dc"],
        [keyword |-> <<"g", "l", "o",
                       "b", "a", "l">>,
         url |-> "photo-1451187580459-43490279c0fa"],
        [keyword |-> <<"a", "u", "t", "o", "m",
                       "a", "t", "i", "o", "n">>,
         url |-> "photo-1563203369-26f2e4a5ccf7"],
        [keyword |-> <<"f", "l",
                       "e", "e", "t">>,
         url |-> "photo-1588411393236-d2827123e3e6"]
    >>

\* images[key].
ImageOf(key) ==
    LET entry == CHOOSE e \in 1..Len(images) : images[e].keyword = key
    IN  images[entry].url

\* Lines 1397-1407: the word lists tried after the dictionary keys, each
\* with the key whose image it returns.
word_groups ==
    <<
        [words |->
           <<<<"p", "r", "i", "c", "e">>,
             <<"c", "o", "s", "t">>,
             <<"f", "i", "n", "a", "n", "c", "i", "a", "l">>,
             <<"e", "c", "o", "n", "o", "m", "i", "c">>,
             <<"m", "a", "r", "k", "e", "t">>>>,
         key |-> <<"l", "o", "g", "i", "s", "t", "i", "c", "s">>],
        [words |->
           <<<<"g", "r", "e", "e", "n">>,
             <<"e", "n", "v", "i", "r", "o", "n", "m", "e", "n", "t">>,
             <<"c", "a", "r", "b", "o", "n">>,
             <<"e", "m", "i", "s", "s", "i", "o", "n">>>>,
         key |-> <<"s", "u", "s", "t", "a", "i", "n", "a", "b", "i", "l", "i", "t", "y">>],
        [words |->
           <<<<"a", "u", "t", "o", "n", "o", "m", "o", "u", "s">>,
             <<"r", "o", "b", "o", "t">>,
             <<"a", "u", "t", "o", "m", "a", "t", "i", "o", "n">>,
             <<"d", "i", "g", "i", "t", "a", "l">>>>,
         key |-> <<"t", "e", "c", "h", "n", "o", "l", "o", "g", "y">>],
        [words |->
           <<<<"d", "r", "i", "v", "e", "r">>,
             <<"t", "r", "u", "c", "k", "e", "r">>,
             <<"o", "p", "e", "r", "a", "t", "o", "r">>,
             <<"p", "e", "r", "s", "o", "n", "n", "e", "l">>>>,
         key |-> <<"d", "r", "i", "v", "e", "r">>]
    >>

\* Lines 1388-1413: the first dictionary key found in the lowercased title,
\* else the key of the first word list with a word in it, else logistics.
keyword_image(topic) ==
    LET topic_lower == Lower(topic.title)
        hits == {k \in 1..Len(images) :
                    Contains(topic_lower, images[k].keyword)}
        first == CHOOSE k \in hits : \A j \in hits : k <= j
        groups == {g \in 1..Len(word_groups) :
                      \E w \in 1..Len(word_groups[g].words) :
                          Contains(topic_lower, word_groups[g].words[w])}
        group == CHOOSE g \in groups : \A j \in groups : g <= j
    IN  IF hits # {} THEN images[first].url
        ELSE IF groups # {} THEN ImageOf(word_groups[group].key)
        ELSE ImageOf(<<"l", "o", "g", "i", "s", "t", "i", "c", "s">>)

Source(tier, out) == [tier |-> tier, out |-> out]

\* Lines 459-492: the image-generation request of revision 1.
ImageGenerate_thenFallback ==
    /\ rev = 1 /\ img_pc = "start"
    /\ \E outcome \in ImageOutcomes :
        IF outcome \in {"url", "nullurl"}
        THEN /\ img_url' = IF outcome = "url" THEN GeneratedUrl
                           ELSE NoneValue
             /\ img_log' = <<Source("generation", "returned")>>
             /\ img_pc' = "fallback"
        ELSE /\ img_log' = <<Source("generation", "failed")>>
             /\ img_pc' = "fallback"
             /\ UNCHANGED img_url
    /\ UNCHANGED <<arg, category>>
    /\ UNCHANGED <<index_vars, ftp_vars, topic_vars, run_vars, filter_vars,
                   scope>>

ImageGenerate ==
    /\ rev = 1 /\ img_pc = "start"
    /\ \E outcome \in ImageOutcomes :
        IF outcome \in {"url", "nullurl"}
        THEN /\ img_url' = IF outcome = "url" THEN GeneratedUrl
                           ELSE NoneValue
             /\ img_log' = <<Source("generation", "returned")>>
             /\ img_pc' = "done"
        ELSE /\ img_log' = <<Source("generation", "failed")>>
             /\ img_pc' = "fallback"
             /\ UNCHANGED img_url
    /\ UNCHANGED <<arg, category>>
    /\ UNCHANGED <<index_vars, ftp_vars, topic_vars, run_vars, filter_vars,
                   scope>>

\* Lines 491-547: the except branch when the title and summary are text.
ImageFallback ==
    /\ rev = 1 /\ img_pc = "fallback" /\ arg.textual
    /\ img_url' = fallback_image(arg)
    /\ img_log' = Append(img_log, Source("table", "returned"))
    /\ img_pc' = "done"
    /\ UNCHANGED <<arg, category>>
    /\ UNCHANGED <<index_vars, ftp_vars, topic_vars, run_vars, filter_vars,
                   scope>>

\* Lines 498 and 549-552: .lower() raises on a title that is not text and
\* the outer except returns the literal.
ImageLastResort ==
    /\ rev = 1 /\ img_pc = "fallback" /\ ~arg.textual
    /\ img_url' = DefaultSemiTruck
    /\ img_log' = img_log \o <<Source("table", "failed"),
                               Source("default", "returned")>>
    /\ img_pc' = "done"
    /\ UNCHANGED <<arg, category>>
    /\ UNCHANGED <<index_vars, ftp_vars, topic_vars, run_vars, filter_vars,
                   scope>>

\* Lines 1358-1413: get_relevant_image of revision 2; .lower() at line
\* 1389 raises to the caller on a title that is not text.
ImageTable ==
    /\ rev = 2 /\ img_pc = "start"
    /\ IF arg.textual
       THEN /\ img_url' = keyword_image(arg)
            /\ img_log' = <<Source("table", "returned")>>
            /\ img_pc' = "done"
       ELSE /\ img_log' = <<Source("table", "failed")>>
            /\ img_pc' = "raised"
            /\ UNCHANGED img_url
    /\ UNCHANGED <<arg, category>>
    /\ UNCHANGED <<index_vars, ftp_vars, topic_vars, run_vars, filter_vars,
                   scope>>

\* Lines 572-585: the dictionary category_keywords, in insertion order.
category_keywords ==
    <<
        [cat |-> "Industry Trends",
         keywords |->
           <<<<"t", "r", "e", "n", "d">>,
             <<"i", "n", "d", "u", "s", "t", "r", "y">>,
             <<"m", "a", "r", "k", "e", "t">>,
             <<"o", "u", "t", "l", "o", "o", "k">>,
             <<"f", "u", "t", "u", "r", "e">>>>],
        [cat |-> "Market Analysis",
         keywords |->
           <<<<"m", "a", "r", "k", "e", "t">>,
             <<"a", "n", "a", "l", "y", "s", "i", "s">>,
             <<"d", "a", "t", "a">>,
             <<"s", "t", "a", "t", "i", "s", "t", "i", "c", "s">>,
             <<"r", "e", "p", "o", "r", "t">>>>],
        [cat |-> "Economic Outlook",
         keywords |->
           <<<<"e", "c", "o", "n", "o", "m", "i", "c">>,
             <<"e", "c", "o", "n", "o", "m", "y">>,
             <<"f", "o", "r", "e", "c", "a", "s", "t">>,
             <<"f", "i", "n", "a", "n", "c", "i", "a", "l">>,
             <<"c", "o", "s", "t">>>>],
        [cat |-> "Supply Chain Management",
         keywords |->
           <<<<"s", "u", "p", "p", "l", "y", " ", "c", "h", "a", "i", "n">>,
             <<"i", "n", "v", "e", "n", "t", "o", "r", "y">>,
             <<"p", "r", "o", "c", "u", "r", "e", "m", "e", "n", "t">>,
             <<"s", "o", "u", "r", "c", "i", "n", "g">>>>],
        [cat |-> "Driver Recruitment",
         keywords |->
           <<<<"r", "e", "c", "r", "u", "i", "t">>,
             <<"h", "i", "r", "i", "n", "g">>,
             <<"d", "r", "i", "v", "e", "r", " ", "s", "h", "o", "r", "t", "a", "g", "e">>,
             <<"t", "a", "l", "e", "n", "t">>,
             <<"w", "o", "r", "k", "f", "o", "r", "c", "e">>>>],
        [cat |-> "Driver Retention",
         keywords |->
           <<<<"r", "e", "t", "e", "n", "t", "i", "o", "n">>,
             <<"t", "u", "r", "n", "o", "v", "e", "r">>,
             <<"d", "r", "i", "v", "e", "r", " ", "s", "a", "t", "i", "s", "f", "a", "c", "t", "i", "o", "n">>,
             <<"c", "a", "r", "e", "e", "r">>>>],
        [cat |-> "Sustainability",
         keywords |->
           <<<<"s", "u", "s", "t", "a", "i", "n", "a", "b", "l", "e">>,
             <<"g", "r", "e", "e", "n">>,
             <<"e", "n", "v", "i", "r", "o", "n", "m", "e", "n", "t">>,
             <<"e", "m", "i", "s", "s", "i", "o", "n">>,
             <<"c", "a", "r", "b", "o", "n">>>>],
        [cat |-> "Technology Trends",
         keywords |->
           <<<<"t", "e", "c", "h", "n", "o", "l", "o", "g", "y">>,
             <<"t", "e", "c", "h">>,
             <<"i", "n", "n", "o", "v", "a", "t", "i", "o", "n">>,
             <<"d", "i", "g", "i", "t", "a", "l">>,
             <<"s", "o", "f", "t", "w", "a", "r", "e">>>>],
        [cat |-> "Safety",
         keywords |->
           <<<<"s", "a", "f", "e", "t", "y">>,
             <<"a", "c", "c", "i", "d", "e", "n", "t">>,
             <<"p", "r", "e", "v", "e", "n", "t", "i", "o", "n">>,
             <<"r", "i", "s", "k">>,
             <<"s", "e", "c", "u", "r", "e">>>>],
        [cat |-> "Regulations",
         keywords |->
           <<<<"r", "e", "g", "u", "l", "a", "t", "i", "o", "n">>,
             <<"c", "o", "m", "p", "l", "i", "a", "n", "c", "e">>,
             <<"l", "a", "w">>,
             <<"l", "e", "g", "a", "l">>,
             <<"r", "e", "q", "u", "i", "r", "e", "m", "e", "n", "t">>>>],
        [cat |-> "Fleet Management",
         keywords |->
           <<<<"f", "l", "e", "e", "t">>,
             <<"m", "a", "n", "a", "g", "e", "m", "e", "n", "t">>,
             <<"m", "a", "i", "n", "t", "e", "n", "a", "n", "c", "e">>,
             <<"v", "e", "h", "i", "c", "l", "e">>,
             <<"a", "s", "s", "e", "t">>>>],
        [cat |-> "Fuel Management",
         keywords |->
           <<<<"f", "u", "e", "l">>,
             <<"d", "i", "e", "s", "e", "l">>,
             <<"g", "a", "s">>,
             <<"c", "o", "n", "s", "u", "m", "p", "t", "i", "o", "n">>,
             <<"e", "f", "f", "i", "c", "i", "e", "n", "c", "y">>>>]
    >>

\* str.count: the occurrences of kw in text that do not overlap, counted
\* from the left.
RECURSIVE Count(_, _)
Count(text, kw) ==
    IF Len(text) < Len(kw) THEN 0
    ELSE IF SubSeq(text, 1, Len(kw)) = kw
         THEN 1 + Count(SubSeq(text, Len(kw) + 1, Len(text)), kw)
         ELSE Count(Tail(text), kw)

\* Line 592: sum(topic_text.count(keyword) for keyword in keywords).
RECURSIVE Score(_, _)
Score(text, keywords) ==
    IF keywords = <<>> THEN 0
    ELSE Count(text, Head(keywords)) + Score(text, Tail(keywords))

\* Line 569.
topic_text(topic) == Lower(topic.title \o <<" ">> \o topic.summary)

\* Lines 588-595: the loop over category_keywords from entry k on.
RECURSIVE BestMatch_firstPositive(_, _, _, _)
BestMatch_firstPositive(text, k, best_match, best_score) ==
    IF k > Len(category_keywords)
    THEN [match |-> best_match, score |-> best_score]
    ELSE LET score == Score(text, category_keywords[k].keywords)
         IN  IF score > 0 /\ best_score = 0
             THEN BestMatch_firstPositive(text, k + 1,
                                          category_keywords[k].cat, score)
             ELSE BestMatch_firstPositive(text, k + 1, best_match,
                                          best_score)

RECURSIVE BestMatch(_, _, _, _)
BestMatch(text, k, best_match, best_score) ==
    IF k > Len(category_keywords)
    THEN [match |-> best_match, score |-> best_score]
    ELSE LET score == Score(text, category_keywords[k].keywords)
         IN  IF score > best_score
             THEN BestMatch(text, k + 1, category_keywords[k].cat, score)
             ELSE BestMatch(text, k + 1, best_match, best_score)

\* Lines 599-602.
trucking_focused_categories ==
    {"Fleet Management", "Driver Retention", "Fuel Management",
     "Safety", "Regulations", "Technology Trends"}

\* Lines 564-605: the category of the post.
SelectCategory ==
    /\ category = Unset
    /\ IF arg.category # NoCategory
       THEN category' = arg.category
       ELSE LET best == BestMatch(topic_text(arg), 1, NoneValue, 0)
            IN  IF best.match = NoneValue \/ best.score = 0
                THEN category' \in trucking_focused_categories
                ELSE category' = best.match
    /\ UNCHANGED <<arg, img_pc, img_log, img_url>>
    /\ UNCHANGED <<index_vars, ftp_vars, topic_vars, run_vars, filter_vars,
                   scope>>

CallIdle ==
    /\ arg = NoArg /\ img_pc = "idle" /\ img_log = <<>>
    /\ img_url = Unset /\ category = Unset

TopicsIdle ==
    /\ rev \in {1, 2}
    /\ main_pc = "start" /\ topic_pc = "idle"
    /\ loop_i = 0 /\ acc = <<>> /\ tier_log = <<>>
    /\ topics = NoVal /\ selected = <<>>
    /\ RunIdle
    /\ FilterIdle /\ CallIdle

FtpIdle ==
    /\ ftp_pc = "idle" /\ file_paths = <<>> /\ file_i = 1 /\ walk_i = 0
    /\ conn = "none" /\ entered = FALSE /\ pending = FALSE
    /\ remote_cwd = <<>> /\ remote_files = {}
    /\ ops = <<>> /\ result = "none" /\ calls = 0

IndexFresh ==
    /\ batch = <<>>
    /\ index_before = MissingFile
    /\ index_result = "none" /\ repeated = FALSE

\* The index file the first run finds: absent, or damaged from outside.
InitIndex ==
    /\ index_file \in {MissingFile, GarbageFile, OtherFile}
    /\ IndexFresh
    /\ TopicsIdle
    /\ FtpIdle /\ remote_dirs = {}
    /\ scope = "any"

\* The index file the first run finds is any array of entries, in any order.
InitIndexExt ==
    /\ index_file \in {json_dump(s) : s \in SeqsUpTo(IndexEntries, MaxExisting)}
    /\ IndexFresh
    /\ TopicsIdle
    /\ FtpIdle /\ remote_dirs = {}
    /\ scope = "any"

\* The remote host before the first upload: with or without the target
\* directory, and no uploaded file.
InitUpload ==
    /\ index_file = MissingFile
    /\ IndexFresh
    /\ TopicsIdle
    /\ FtpIdle /\ remote_dirs \in {{}, {PathParts}}
    /\ scope = "any"

\* The first update_blog_index call of a run, on the index file it finds.
UpdateExistingIndex == index_result = "none" /\ UpdateBlogIndex

\* A run of main up to the selection of its topics.
TopicsStart ==
    /\ index_file = MissingFile
    /\ IndexFresh
    /\ TopicsIdle
    /\ FtpIdle /\ remote_dirs = {}

InitTopics == TopicsStart /\ scope = "any"

\* Topics the runs of the topic loop are given: one with an empty summary
\* and one with an empty title.
RunTopics == {Topic("t1", "", NoCategory), Topic("", "s1", NoCategory)}

\* What blog-posts/ holds besides index.json when a run starts.
LocalDirs == {{}, {ImageAsset}}

\* A run of main from the selection of its topics on: the first tier failed
\* and the second answered with at most POSTS_TO_GENERATE topics, which
\* main kept whole.  The index file is absent, damaged, or holds the post of
\* an earlier run.
RunStart ==
    /\ index_file \in {MissingFile, GarbageFile, OtherFile,
                       json_dump(<<IndexPost(Post(1, "t1"))>>)}
    /\ IndexFresh
    /\ FtpIdle /\ remote_dirs = {}
    /\ LoopIdle
    /\ local_files \in LocalDirs
    /\ FilterIdle /\ CallIdle
    /\ rev \in {1, 2}
    /\ main_pc = "loop" /\ topic_pc = "idle"
    /\ loop_i = 0 /\ acc = <<>>
    /\ tier_log = <<[tier |-> "t1", out |-> "failed"],
                    [tier |-> "t2", out |-> "returned"]>>
    /\ selected \in SeqsUpTo(RunTopics, PostsToGenerate)
    /\ topics = ListVal(selected)

InitRun == RunStart /\ scope = "any"

\* The relevance filters on any candidate topic.
InitFilter ==
    /\ index_file = MissingFile
    /\ IndexFresh
    /\ FtpIdle /\ remote_dirs = {}
    /\ RunIdle
    /\ rev = 1
    /\ main_pc = "start" /\ topic_pc = "idle"
    /\ loop_i = 0 /\ acc = <<>> /\ tier_log = <<>>
    /\ topics = NoVal /\ selected = <<>>
    /\ cand \in Candidates /\ passed = NoVerdict
    /\ CallIdle
    /\ scope = "any"

\* A run of main from its call of upload_blog_files on, after a loop over
\* at most one topic in which every call returned, the image call with a
\* URL, and after update_blog_index on an absent or damaged index file.
InitPublish ==
    /\ rev \in {1, 2}
    /\ \E sel \in SeqsUpTo(RunTopics, 1), old \in {MissingFile, GarbageFile},
          dir \in LocalDirs :
        LET posts == [k \in 1..Len(sel) |->
                        [Post(1, sel[k].title) EXCEPT
                            !.image = get_relevant_image(sel[k], "url")]]
            written == {RecordFile(posts[k]) : k \in 1..Len(posts)}
                          \cup {HtmlFile(posts[k]) : k \in 1..Len(posts)}
        IN  /\ selected = sel /\ topics = ListVal(sel)
            /\ topic_i = Len(sel)
            /\ generated_posts = posts
            /\ local_files = dir \cup written
            /\ image_url = IF sel = <<>> THEN Unset ELSE posts[1].image
            /\ post_id = IF sel = <<>> THEN 0 ELSE 1
            /\ index_before = old
            /\ batch = posts
            /\ index_file = update_blog_index(old, posts).file
    /\ index_result = "returned" /\ repeated = FALSE
    /\ now = 1 /\ gen_pc = "idle" /\ raised = "none" /\ report = "none"
    /\ main_pc = "upload" /\ topic_pc = "idle"
    /\ loop_i = 0 /\ acc = <<>>
    /\ tier_log = <<[tier |-> "t1", out |-> "failed"],
                    [tier |-> "t2", out |-> "returned"]>>
    /\ FilterIdle /\ CallIdle
    /\ FtpIdle /\ remote_dirs \in {{}, {PathParts}}
    /\ scope = "any"

\* A run of main from the end of its topic loop on: the loop went over at
\* most one topic and every call in it returned, the image call with a URL;
\* update_blog_index has not been called yet.
FinishStart ==
    /\ rev \in {1, 2}
    /\ \E sel \in SeqsUpTo(RunTopics, 1), dir \in LocalDirs :
        LET posts == [k \in 1..Len(sel) |->
                        [Post(1, sel[k].title) EXCEPT
                            !.image = get_relevant_image(sel[k], "url")]]
            written == {RecordFile(posts[k]) : k \in 1..Len(posts)}
                          \cup {HtmlFile(posts[k]) : k \in 1..Len(posts)}
        IN  /\ selected = sel /\ topics = ListVal(sel)
            /\ topic_i = Len(sel)
            /\ generated_posts = posts
            /\ local_files = dir \cup written
            /\ image_url = IF sel = <<>> THEN Unset ELSE posts[1].image
            /\ post_id = IF sel = <<>> THEN 0 ELSE 1
    /\ index_file \in {MissingFile, GarbageFile, OtherFile}
    /\ IndexFresh
    /\ now = 1 /\ gen_pc = "idle" /\ raised = "none" /\ report = "none"
    /\ main_pc = "loop" /\ topic_pc = "idle"
    /\ loop_i = 0 /\ acc = <<>>
    /\ tier_log = <<[tier |-> "t1", out |-> "failed"],
                    [tier |-> "t2", out |-> "returned"]>>
    /\ FilterIdle /\ CallIdle
    /\ FtpIdle /\ remote_dirs \in {{}, {PathParts}}

InitFinish == FinishStart /\ scope = "any"

\* A call of get_relevant_image, of either revision, on one topic.
InitImage ==
    /\ index_file = MissingFile
    /\ IndexFresh
    /\ FtpIdle /\ remote_dirs = {}
    /\ RunIdle
    /\ rev \in {1, 2}
    /\ main_pc = "start" /\ topic_pc = "idle"
    /\ loop_i = 0 /\ acc = <<>> /\ tier_log = <<>>
    /\ topics = NoVal /\ selected = <<>>
    /\ FilterIdle
    /\ arg \in {a \in Args : a.category = NoCategory}
    /\ img_pc = "start" /\ img_log = <<>>
    /\ img_url = Unset /\ category = Unset
    /\ scope = "any"

\* generate_blog_post of revision 1 at line 564, on one topic.
InitCategory ==
    /\ index_file = MissingFile
    /\ IndexFresh
    /\ FtpIdle /\ remote_dirs = {}
    /\ RunIdle
    /\ rev = 1
    /\ main_pc = "start" /\ topic_pc = "idle"
    /\ loop_i = 0 /\ acc = <<>> /\ tier_log = <<>>
    /\ topics = NoVal /\ selected = <<>>
    /\ FilterIdle
    /\ arg \in {a \in Args : a.textual}
    /\ img_pc = "idle" /\ img_log = <<>>
    /\ img_url = Unset /\ category = Unset
    /\ scope = "any"

\* A run of main followed one stage at a time: the fetch and selection of
\* the topics, the loop over the selected topics, or the index update with
\* the upload and the report, each from the start states of its own
\* specification.
InitStages ==
    \/ TopicsStart /\ scope = "topics"
    \/ RunStart /\ scope = "loop"
    \/ FinishStart /\ scope = "publish"

NextIndex == UpdateBlogIndex

NextTopics ==
    \/ MainFetchTopics
    \/ Tier1
    \/ Tier2
    \/ ScrapeSite
    \/ ScrapeDone
    \/ CategoryTopic
    \/ CategoryDone
    \/ Fallback
    \/ SelectTopics

NextIndexExt == UpdateExistingIndex

NextFilter == ApplyFilters

NextImage ==
    \/ ImageGenerate
    \/ ImageFallback
    \/ ImageLastResort
    \/ ImageTable

NextCategory == SelectCategory

NextFinish ==
    \/ MainUpdateIndex
    \/ MainUploadBlogFiles
    \/ FtpConnect
    \/ FtpLogin
    \/ CwdBlogDir
    \/ WalkCwd
    \/ WalkMkd
    \/ WalkCwd2
    \/ StorFile
    \/ FilesDone
    \/ FtpExit
    \/ FtpReturn
    \/ MainReport

NextPublish ==
    \/ MainUploadBlogFiles
    \/ FtpConnect
    \/ FtpLogin
    \/ CwdBlogDir
    \/ WalkCwd
    \/ WalkMkd
    \/ WalkCwd2
    \/ StorFile
    \/ FilesDone
    \/ FtpExit
    \/ FtpReturn
    \/ MainReport

NextRun ==
    \/ StartTopic
    \/ GenMeta
    \/ GenKeywords
    \/ GenContent
    \/ ResolveImage
    \/ Tick
    \/ AssemblePost
    \/ SaveBlogPost
    \/ CreateBlogPostHtml
    \/ MainUpdateIndex

NextUpload ==
    \/ StartUpload
    \/ FtpConnect
    \/ FtpLogin
    \/ CwdBlogDir
    \/ WalkCwd
    \/ WalkMkd
    \/ WalkCwd2
    \/ StorFile
    \/ FilesDone
    \/ FtpExit
    \/ FtpReturn

NextStages ==
    \/ scope = "topics" /\ NextTopics
    \/ scope = "loop" /\ NextRun
    \/ scope = "publish" /\ NextFinish

SpecIndex == InitIndex /\ [][NextIndex]_vars
SpecIndexExt == InitIndexExt /\ [][NextIndexExt]_vars
SpecUpload == InitUpload /\ [][NextUpload]_vars
SpecTopics == InitTopics /\ [][NextTopics]_vars
SpecRun == InitRun /\ [][NextRun]_vars
SpecFilter == InitFilter /\ [][NextFilter]_vars
SpecPublish == InitPublish /\ [][NextPublish]_vars
SpecFinish == InitFinish /\ [][NextFinish]_vars
SpecImage == InitImage /\ [][NextImage]_vars
SpecCategory == InitCategory /\ [][NextCategory]_vars
SpecStages == InitStages /\ [][NextStages]_vars

\* main is one thread that runs to its end: a step that can be taken is
\* taken, every external call returning or raising.
FairStages == SpecStages /\ WF_vars(NextStages)

\* ------------------------------------------------- index merge properties
IdsOf(all_posts) == {all_posts[k]["id"] : k \in 1..Len(all_posts)}

CountId(all_posts, i) ==
    Cardinality({k \in 1..Len(all_posts) : all_posts[k]["id"] = i})

CountEntry(all_posts, e) ==
    Cardinality({k \in 1..Len(all_posts) : all_posts[k] = e})

IsSortedDesc(all_posts) ==
    \A k \in 1..(Len(all_posts) - 1) :
        all_posts[k]["id"] >= all_posts[k + 1]["id"]

UniqueIds(all_posts) == \A i \in IdsOf(all_posts) : CountId(all_posts, i) = 1

Returned == index_result = "returned"

\* C1: after two update_blog_index calls in a row with the same batch, every
\* id of the batch is in the index exactly once, the index is in descending
\* id order, and the second call left the index content as it was.
C1_SameBatchTwice ==
    (Returned /\ repeated) =>
        /\ \A i \in IdsOf(batch) : CountId(index_file.data, i) = 1
        /\ IsSortedDesc(index_file.data)
        /\ index_file.data = index_before.data

C1_Witness ==
    /\ Returned /\ repeated
    /\ Len(batch) = 2 /\ batch[1]["id"] < batch[2]["id"]
    /\ Len(index_file.data) = 2

\* C2: starting from a missing index file, no two index entries ever have the
\* same id (also when one batch holds two posts with the same id), and a call
\* whose batch ids are all indexed already leaves the entries in the order
\* they had.
C2_NoDuplicateIds ==
    /\ index_file.kind = "array" => UniqueIds(index_file.data)
    /\ (Returned /\ index_before.kind = "array"
        /\ IdsOf(batch) \subseteq IdsOf(index_before.data)) =>
            index_file.data = index_before.data

C2_Witness ==
    /\ Returned /\ Len(batch) = 2 /\ batch[1]["id"] = batch[2]["id"]
    /\ batch[1]["title"] # batch[2]["title"]
    /\ index_before.kind = "array" /\ Len(index_before.data) = 2
    /\ IdsOf(batch) \subseteq IdsOf(index_before.data)

\* C3: update_blog_index never drops an entry: every entry of the index file
\* before the call is in the file after the call, as many times as before,
\* whether or not its id occurs in the batch.
C3_NeverDrops ==
    (index_result # "none" /\ index_before.kind = "array") =>
        /\ index_file.kind = "array"
        /\ \A k \in 1..Len(index_before.data) :
              CountEntry(index_file.data, index_before.data[k])
                  >= CountEntry(index_before.data, index_before.data[k])

C3_Witness ==
    /\ Returned /\ Len(index_before.data) >= 1 /\ Len(batch) = 2
    /\ batch[1]["id"] \in IdsOf(index_before.data)
    /\ batch[2]["id"] \notin IdsOf(index_before.data)
    /\ \A k \in 1..Len(index_before.data) :
          index_before.data[k] # IndexPost(batch[1])

\* C4: a batch of one post with a new id and one post with an indexed id
\* makes the index grow by exactly the new post's entry, and the entry stored
\* under the indexed id keeps every field value, also when the batch post
\* with that id has other field values.
OneNewOneIndexed(new, old) ==
    /\ Len(batch) = 2 /\ {new, old} = {1, 2}
    /\ index_before.kind = "array"
    /\ batch[new]["id"] \notin IdsOf(index_before.data)
    /\ batch[old]["id"] \in IdsOf(index_before.data)

C4_OneNewOneIndexed ==
    \A new, old \in 1..2 :
        (Returned /\ OneNewOneIndexed(new, old)) =>
            /\ Len(index_file.data) = Len(index_before.data) + 1
            /\ CountEntry(index_file.data, IndexPost(batch[new])) = 1
            /\ \A k \in 1..Len(index_before.data) :
                  CountEntry(index_file.data, index_before.data[k]) = 1
            /\ \A k \in 1..Len(index_file.data) :
                  index_file.data[k]["id"] = batch[old]["id"] =>
                      \E j \in 1..Len(index_before.data) :
                          index_before.data[j] = index_file.data[k]

C4_Witness ==
    /\ Returned /\ OneNewOneIndexed(2, 1)
    /\ \A k \in 1..Len(index_before.data) :
          index_before.data[k]["id"] = batch[1]["id"] =>
              index_before.data[k]["title"] # batch[1]["title"]

\* C5: after every update_blog_index call the written index is in descending
\* id order, whatever the order of the existing file and of the batch.
C5_SortedAfterUpdate ==
    Returned => index_file.kind = "array" /\ IsSortedDesc(index_file.data)

C5_Witness ==
    /\ Returned
    /\ ~IsSortedDesc(index_before.data)
    /\ Len(batch) = 2 /\ batch[1]["id"] < batch[2]["id"]

\* C6: update_blog_index completes without raising when the index file is
\* missing or corrupt (unparseable text, or parseable JSON that is not an
\* array of entries); it treats the index as empty, so the written index
\* holds exactly the entries of the batch.
C6_CorruptIndexIsEmpty ==
    (index_result # "none"
     /\ index_before.kind \in {"missing", "garbage", "other"}) =>
        /\ Returned
        /\ index_file.kind = "array"
        /\ IdsOf(index_file.data) = IdsOf(batch)
        /\ \A k \in 1..Len(index_file.data) :
              \E j \in 1..Len(batch) : index_file.data[k] = IndexPost(batch[j])

\* ---------------------------------------------------- publisher properties
OpsWhere(c, o) == {k \in 1..Len(ops) : ops[k].cmd = c /\ ops[k].out = o}

FileOps == {k \in 1..Len(ops) : ops[k].cmd \in {"open", "stor"}}
DirOps == {k \in 1..Len(ops) : ops[k].cmd \in {"cwd", "mkd"}}
FailedFileOps == {k \in FileOps : ops[k].out = "fail"}

\* Names of the files of the current call: all, attempted, transferred.
NamesOf(paths) == {FileName(paths[k]) : k \in 1..Len(paths)}
Attempted == {ops[k].arg[1] : k \in FileOps}
Transferred == {ops[k].arg[1] : k \in OpsWhere("stor", "ok")}
Failed == {ops[k].arg[1] : k \in FailedFileOps}

OnRemote(name) == \E f \in remote_files : f.name = name

ConnectionFailed ==
    \E k \in 1..Len(ops) :
        ops[k].cmd \in {"connect", "login"} /\ ops[k].out # "ok"

Done == ftp_pc = "done"

\* C7: when the transfer of one file fails the remaining files of the set
\* are still attempted: with three files of which one fails, the function
\* returns False and the other two files are on the remote host.
C7_OthersStillUploaded ==
    (Done /\ Len(file_paths) = 3 /\ Cardinality(Failed) = 1) =>
        /\ result = "False"
        /\ Attempted = NamesOf(file_paths)
        /\ \A n \in NamesOf(file_paths) \ Failed : OnRemote(n)

\* C8: upload_files_to_ftp returns False if any file failed to upload, and
\* returns True only if the connection, the directory step and every file
\* transfer of the set succeeded.
C8_ResultReflectsFailures ==
    Done =>
        /\ Failed # {} => result = "False"
        /\ result = "True" =>
              /\ OpsWhere("connect", "ok") # {} /\ OpsWhere("login", "ok") # {}
              /\ ~ConnectionFailed
              /\ remote_cwd = PathParts
              /\ \A k \in DirOps : ops[k].out # "fail"
              /\ \A k \in DirOps : ops[k].cmd = "mkd" => ops[k].out = "ok"
              /\ Transferred = NamesOf(file_paths)
              /\ \A n \in NamesOf(file_paths) :
                    [dir |-> PathParts, name |-> n] \in remote_files

C8_Witness ==
    /\ Done /\ result = "True" /\ Len(file_paths) = 3
    /\ OpsWhere("mkd", "ok") # {}

\* C9: when connecting or authenticating to the remote host fails,
\* upload_files_to_ftp issues no directory operation and no file transfer
\* and returns False.
C9_ConnectionFailureAborts ==
    ConnectionFailed =>
        /\ DirOps = {} /\ FileOps = {}
        /\ Done => result = "False"

C9_Witness ==
    /\ Done /\ OpsWhere("login", "perm") # {} /\ Len(file_paths) = 3
    /\ result = "False"

\* C10: the connection opened by upload_files_to_ftp is closed on every
\* exit path (success, directory-creation failure, file-transfer failure,
\* authentication failure after the transport is connected) before the
\* function returns: no call returns with the connection still open.
C10_ClosedOnEveryExit == Done => conn # "open"

\* C11: every publish run goes connect, ensure target directory, ensure
\* image subdirectory, upload each file, disconnect: no file is uploaded
\* before the target directory and its images subdirectory have both been
\* entered or created.
ImagesDir == Append(PathParts, "images")

EnsuredDir(dir, upto) ==
    \E k \in 1..upto :
        /\ ops[k].cmd \in {"cwd", "mkd"}
        /\ ops[k].arg = dir
        /\ ops[k].out = "ok"

C11_DirectoriesBeforeUpload ==
    \A k \in 1..Len(ops) :
        ops[k].cmd = "stor" =>
            /\ \E j \in 1..(k - 1) : ops[j].cmd = "connect" /\ ops[j].out = "ok"
            /\ EnsuredDir(PathParts, k - 1)
            /\ EnsuredDir(ImagesDir, k - 1)

\* ------------------------------------------- topic acquisition properties
Selecting == main_pc \in {"loop", "crashed"} /\ topic_pc = "idle"

TitlesOf(ts) == {ts[k].title : k \in 1..Len(ts)}

CountTopic(ts, t) == Cardinality({k \in 1..Len(ts) : ts[k] = t})

\* C14: topic acquisition followed by main's selection with requested
\* count n always yields at least 1 and at most n topics, whatever the
\* external services answer (also an empty JSON array, or a JSON value
\* that is not an array, from a generative tier).
C14_BetweenOneAndN ==
    Selecting =>
        /\ main_pc = "loop"
        /\ Len(selected) >= 1
        /\ Len(selected) <= PostsToGenerate

\* C15: get_current_logistics_topics never raises: a failure inside a tier
\* is caught within that tier and the next tier is attempted, so the
\* function always returns a topic list.
C15_AlwaysReturnsTopicList ==
    /\ topic_pc = "returned" => topics.kind = "list"
    /\ \A k \in 1..Len(tier_log) :
          tier_log[k].out = "failed" =>
              \/ k < Len(tier_log)
              \/ topic_pc \in {"t2", "t3", "t4", "fallback"}

\* C16: when the acquired pool has more topics than the requested count n,
\* exactly n topics are selected, each one an element of the pool, and no
\* two selected topics have the same title.
C16_SampleHasDistinctTitles ==
    (main_pc = "loop" /\ topics.kind = "list"
     /\ Len(topics.items) > PostsToGenerate) =>
        /\ Len(selected) = PostsToGenerate
        /\ \A k \in 1..Len(selected) :
              \E j \in 1..Len(topics.items) : selected[k] = topics.items[j]
        /\ Cardinality(TitlesOf(selected)) = Len(selected)

\* C17: when the acquired pool has fewer topics than the requested count,
\* the selected topics are exactly the pool: the same elements, none
\* duplicated and none dropped.
C17_SmallPoolKeptWhole ==
    (main_pc = "loop" /\ topics.kind = "list"
     /\ Len(topics.items) < PostsToGenerate) =>
        /\ Len(selected) = Len(topics.items)
        /\ \A k \in 1..Len(topics.items) :
              CountTopic(selected, topics.items[k])
                  = CountTopic(topics.items, topics.items[k])

C17_Witness ==
    /\ main_pc = "loop" /\ rev = 2 /\ Len(topics.items) = 2
    /\ topics.items[1] # topics.items[2]
    /\ Len(selected) = 2

\* ------------------------------------------------- topic loop properties
GenerativeSteps == {"meta", "keywords", "content"}
LocalIoSteps == {"save", "template"}

ImageResolved == gen_pc \in {"assemble", "save", "html"}

FilesOf(i) == {f \in local_files : f.name = i}

\* C12: if one of the three generative calls of generate_blog_post (meta
\* description, keywords, content) raises, the failure is caught at that
\* call and the run goes on to save and publish the post: no such exception
\* leaves main.
C12_GenerativeFailureCaught ==
    /\ raised \notin GenerativeSteps
    /\ main_pc = "crashed" => raised \notin GenerativeSteps

\* C13: get_relevant_image never raises and never returns an empty or null
\* image reference, for every topic (also one with an empty summary or an
\* empty title) and every outcome of the image-generation call.
C13_ImageNeverEmpty ==
    /\ raised # "image"
    /\ ImageResolved => image_url \notin {NoneValue, "", Unset}

\* C18: any two posts generated by the pipeline have different ids.
C18_UniquePostIds ==
    \A j, k \in 1..Len(generated_posts) :
        j # k => generated_posts[j]["id"] # generated_posts[k]["id"]

\* C19: a post's id is assigned exactly once, before any step whose effect
\* depends on it (image resolution and file naming), and is never changed
\* afterwards: the record file name, the rendered document name and share
\* URL, and the index entry of a post all carry the same id.
C19_IdAssignedBeforeUse ==
    /\ image_url # Unset => post_id # 0
    /\ gen_pc \in {"save", "html"} => post_id # 0
    /\ \A f \in local_files : f.name = f["id"]
    /\ \A k \in 1..Len(generated_posts) :
          /\ \E f \in FilesOf(generated_posts[k]["id"]) : f.kind = "record"
          /\ \E f \in FilesOf(generated_posts[k]["id"]) : f.kind = "html"
    /\ (main_pc = "upload" /\ index_before.kind # "array") =>
          IdsOf(ReadIndex(index_file)) = IdsOf(generated_posts)

\* C20: a local I/O error while one topic is processed (template missing,
\* record write failed) skips only that topic: no such exception leaves
\* main, and the index update still runs.
C20_LocalIoErrorSkipsTopic ==
    /\ raised \notin LocalIoSteps
    /\ main_pc = "crashed" => raised \notin LocalIoSteps

\* ------------------------------------------------------- tier properties
\* The tiers of each revision in the order of the source text: browsing,
\* synthetic generation, scraping, category-seeded generation (revision 1
\* only), hardcoded set.
TierOrder ==
    IF rev = 1 THEN <<"t1", "t2", "t3", "t4", "fallback">>
    ELSE <<"t1", "t2", "t3", "fallback">>

LastTier == tier_log[Len(tier_log)]

ReturnedBy(tier) ==
    /\ topic_pc = "returned"
    /\ LastTier.tier = tier /\ LastTier.out = "returned"

AllRelevant(ts) == \A k \in 1..Len(ts) : IsRelevant(ts[k])

C25_BrowsingNeedsThreeRelevant ==
    ReturnedBy("t1") =>
        /\ topics.kind = "list"
        /\ Len(topics.items) >= 3
        /\ AllRelevant(topics.items)

\* C26: the scraping tier's result is accepted only when at least 3
\* relevant articles were collected over all sites combined; with fewer the
\* collected articles are discarded and the category-seeded tier is
\* attempted.
C26_ScrapingNeedsThreeRelevant ==
    /\ ReturnedBy("t3") =>
          /\ Len(topics.items) >= 3
          /\ AllRelevant(topics.items)
    /\ (Len(tier_log) >= 3 /\ tier_log[3].out = "failed"
        /\ topic_pc # "returned") => topic_pc = "t4"

\* ------------------------------------------------- directory walk property
MkdOps == {k \in 1..Len(ops) : ops[k].cmd = "mkd"}

\* Position in ops of the CWD to the target directory (line 897), 0 if none.
FirstCwd ==
    IF \E k \in 1..Len(ops) : ops[k].cmd = "cwd"
    THEN CHOOSE k \in 1..Len(ops) :
            /\ ops[k].cmd = "cwd"
            /\ \A j \in 1..(k - 1) : ops[j].cmd # "cwd"
    ELSE 0

WalkStarted == FirstCwd # 0 /\ ops[FirstCwd].out = "perm"

\* C29: when entering the target directory fails with a permission or
\* not-found error, the path is walked from its root segment by segment,
\* entering each segment that exists and creating then entering each one
\* that does not: no create is issued for an existing segment, and the walk
\* ends with the target directory as the current remote directory.
C29_WalkCreatesOnlyMissing ==
    WalkStarted =>
        /\ \A k \in MkdOps :
              ops[k].out # "ok" => ops[k].arg \notin remote_dirs
        /\ ftp_pc = "stor" => remote_cwd = PathParts

\* ---------------------------------------------- relevance filter property
\* term occurs in text at some position, letters compared without regard
\* to case.
OccursIgnoringCase(term, text) ==
    \E i \in 0..(Len(text) - Len(term)) :
        \A j \in 1..Len(term) : LowerChar(text[i + j]) = LowerChar(term[j])

PassesFilter(topic) ==
    \E term \in Terms :
        \/ OccursIgnoringCase(term, topic.title)
        \/ OccursIgnoringCase(term, topic.summary)

\* C27: a candidate topic passes the relevance filter exactly when at
\* least one keyword occurs, compared case-insensitively, in its title or
\* in its summary; the browsing tier and the scraping tier apply this same
\* filter.
C27_FilterIsKeywordMatch ==
    passed.applied =>
        /\ passed.browsing = PassesFilter(cand)
        /\ passed.scraping = PassesFilter(cand)

C27_Witness ==
    /\ passed.applied
    /\ cand.title = <<"x", "S">> /\ cand.summary = <<>>
    /\ passed.browsing /\ passed.scraping

\* ------------------------------------------------- end of run properties
Publishing == main_pc \in {"upload", "uploading", "report"}

\* C21: at its end main reports one of three distinct outcomes (posts
\* generated and published, posts generated but not published, no content
\* generated), and a run in which no post was generated never reports the
\* fully successful outcome.
C21_ThreeOutcomes ==
    main_pc = "done" =>
        /\ report \in {"success", "upload_error", "no_content"}
        /\ generated_posts = <<>> => report = "no_content"
        /\ report = "success" => generated_posts # <<>> /\ result = "True"

\* C22: upload_blog_files and upload_files_to_ftp only read local state:
\* the local post records, rendered documents and index file are the same
\* after a publish, successful or failed, as before it.
C22_PublishOnlyReads ==
    [][Publishing =>
           /\ local_files' = local_files
           /\ index_file' = index_file]_vars

C22_Witness ==
    /\ main_pc = "done" /\ report = "success"
    /\ Len(generated_posts) = 1
    /\ \E f \in local_files : f.kind = "record"
    /\ \E f \in remote_files : f.name = <<"record", 1>>

\* C23: the publisher has a plaintext and an encrypted transport variant
\* selected by configuration, and both go through the same states and
\* return the same result for the same remote outcomes.
C23_TwoTransportVariants ==
    \A k \in 1..Len(ops) :
        ops[k].cmd = "connect" =>
            {"plaintext", "encrypted"} \subseteq Transports

\* A remote file's role is the kind of the local file it was read from.
RoleDir(name) == IF name[1] = "image" THEN ImagesDir ELSE PathParts

\* C30: each local file is uploaded to a remote path fixed by its role and
\* its bare file name: records, documents and index.json go to the target
\* root, image assets go to the images subdirectory, and no remote name
\* contains a directory component of the local path.
C30_RemotePathByRole ==
    main_pc \in {"uploading", "done"} =>
        \A f \in remote_files :
            /\ f.dir = RoleDir(f.name)
            /\ \E k \in 1..Len(file_paths) :
                  f.name = file_paths[k][Len(file_paths[k])]

\* ------------------------------------------------ loop order properties
HasFile(kind, i) == \E f \in local_files : f.kind = kind /\ f.name = i

\* Topic k has been generated, saved and rendered.
TopicComplete(k) ==
    /\ k <= Len(generated_posts)
    /\ generated_posts[k].title = selected[k].title
    /\ generated_posts[k].image # Unset
    /\ HasFile("record", generated_posts[k]["id"])
    /\ HasFile("html", generated_posts[k]["id"])

IndexTouched ==
    index_file' # index_file \/ index_result' # index_result

\* C28: topics are processed strictly one after another (content, image,
\* save and render of topic k are complete before topic k+1 starts), and
\* the index file is read and written only once per run, after the last
\* selected topic has been generated.
C28_OneTopicAtATime ==
    [][/\ topic_i' # topic_i =>
            /\ topic_i' = topic_i + 1
            /\ gen_pc = "idle"
            /\ \A k \in 1..topic_i : TopicComplete(k)
       /\ IndexTouched =>
            /\ index_result = "none"
            /\ topic_i = Len(selected)
            /\ \A k \in 1..Len(selected) : TopicComplete(k)]_vars

C28_Witness ==
    /\ main_pc = "upload" /\ index_result = "returned"
    /\ Len(selected) = 2 /\ Len(generated_posts) = 2

\* ------------------------------------------------- run outcome properties
LoopSteps == GenerativeSteps \cup LocalIoSteps

NoTransfer == ftp_pc = "idle" /\ ops = <<>> /\ remote_files = {}

\* Files of the posts generated so far.
FilesOnDisk ==
    \A k \in 1..Len(generated_posts) :
        /\ HasFile("record", generated_posts[k]["id"])
        /\ HasFile("html", generated_posts[k]["id"])

\* C36: the index update and the upload of a run happen only if every
\* selected topic was generated, saved and rendered without error: if one
\* of these steps raises for some topic, neither update_blog_index nor any
\* file transfer is executed in that run, while the record and document
\* files already written for earlier topics stay on disk.
C36_UpdateOnlyAfterCleanLoop ==
    /\ index_result # "none" =>
          /\ raised \notin LoopSteps
          /\ \A k \in 1..Len(selected) : TopicComplete(k)
    /\ raised \in LoopSteps =>
          /\ main_pc = "crashed"
          /\ index_result = "none"
          /\ NoTransfer
          /\ FilesOnDisk

C36_Witness ==
    /\ main_pc = "crashed" /\ raised = "template"
    /\ topic_i = 2 /\ Len(generated_posts) = 1
    /\ HasFile("html", generated_posts[1]["id"])
    /\ index_result = "none"

NewEntries ==
    SelectSeq(ReadIndex(index_file),
              LAMBDA e : e["id"] \notin IdsOf(ReadIndex(index_before)))

\* C38: every entry that update_blog_index adds to the index in a run
\* belongs to a post whose record file and rendered document were both
\* written earlier in that run: a post is put in the batch only after
\* save_blog_post and create_blog_post_html returned.
C38_IndexedPostsHaveFiles ==
    /\ FilesOnDisk
    /\ index_result = "returned" =>
          /\ batch = generated_posts
          /\ \A n \in 1..Len(NewEntries) :
                /\ NewEntries[n]["id"] \in IdsOf(generated_posts)
                /\ HasFile("record", NewEntries[n]["id"])
                /\ HasFile("html", NewEntries[n]["id"])

C38_Witness ==
    /\ index_result = "returned" /\ Len(NewEntries) = 2
    /\ Len(generated_posts) = 2

\* Positions of the batch that hold id i.
WithId(i) == {k \in 1..Len(generated_posts) : generated_posts[k]["id"] = i}

Earliest(S) == CHOOSE k \in S : \A j \in S : k <= j
Latest(S) == CHOOSE k \in S : \A j \in S : k >= j

EntryOf(all_posts, i) ==
    all_posts[CHOOSE k \in 1..Len(all_posts) : all_posts[k]["id"] = i]

RecordOf(i) == CHOOSE f \in local_files : f.kind = "record" /\ f.name = i

\* C39: when a post is saved and merged under an id that another post
\* already holds (in the index, or earlier in the same batch), the record
\* file of that id is overwritten with the later post while the index entry
\* of that id keeps the earlier post's fields.
C39_RecordLaterIndexEarlier ==
    index_result = "returned" =>
        \A i \in IdsOf(generated_posts) :
            /\ RecordOf(i).title = generated_posts[Latest(WithId(i))].title
            /\ EntryOf(ReadIndex(index_file), i) =
                  IF i \in IdsOf(ReadIndex(index_before))
                  THEN EntryOf(ReadIndex(index_before), i)
                  ELSE IndexPost(generated_posts[Earliest(WithId(i))])

\* The record and the index entry of one id disagree.
C39_Witness ==
    /\ index_result = "returned"
    /\ \E i \in IdsOf(generated_posts) :
          /\ Cardinality(WithId(i)) = 2
          /\ RecordOf(i).title # EntryOf(ReadIndex(index_file), i).title

\* ------------------------------------------------ index upload property
TransferStarted == ftp_pc # "idle" \/ ops # <<>> \/ remote_files # {}

IndexUploaded == \E f \in remote_files : f.name = <<"index", 0>>

\* C37: within a run every file transfer happens after update_blog_index
\* has written the index, so an index.json uploaded in a run already lists
\* every post generated in that run.
C37_IndexWrittenBeforeUpload ==
    /\ TransferStarted =>
          /\ index_result = "returned"
          /\ index_file.kind = "array"
    /\ IndexUploaded =>
          IdsOf(generated_posts) \subseteq IdsOf(ReadIndex(index_file))

C37_Witness ==
    /\ IndexUploaded /\ Len(generated_posts) = 1
    /\ main_pc = "done"

\* --------------------------------------------- image source properties
GenerationReturned ==
    img_log # <<>> /\ img_log[1] = Source("generation", "returned")

\* C31: in get_relevant_image of lines 447-552 a later source is consulted
\* only after the previous one failed: the generation request comes first,
\* when it returns its result is the value of the call and no table is
\* consulted, and the literal default is returned only after every earlier
\* source failed.
C31_LaterTierOnlyAfterFailure ==
    rev = 1 =>
        /\ img_log # <<>> => img_log[1].tier = "generation"
        /\ \A k \in 2..Len(img_log) : img_log[k - 1].out = "failed"
        /\ GenerationReturned =>
              /\ Len(img_log) = 1
              /\ img_pc = "done"
              /\ img_url \in {GeneratedUrl, NoneValue}
        /\ \A k \in 1..Len(img_log) :
              img_log[k].tier = "default" =>
                  \A j \in 1..(k - 1) : img_log[j].out = "failed"

C31_Witness ==
    /\ rev = 1 /\ img_pc = "done"
    /\ Len(img_log) = 3 /\ img_log[3] = Source("default", "returned")

\* The keywords of the static table of the running revision, each with the
\* URL it stands for: the chain of lines 498-507, or the dictionary keys of
\* lines 1368-1386 and the words of lines 1397-1407.
TableEntries ==
    IF rev = 1
    THEN {[keyword |-> search_chain[k].keyword,
           url |-> (CHOOSE u \in {direct_unsplash_urls[e].url :
                                     e \in 1..Len(direct_unsplash_urls)} :
                      \E e \in 1..Len(direct_unsplash_urls) :
                          /\ direct_unsplash_urls[e].term
                                = search_chain[k].term
                          /\ direct_unsplash_urls[e].url = u)] :
             k \in 1..Len(search_chain)}
    ELSE {images[k] : k \in 1..Len(images)}
            \cup {[keyword |-> word_groups[g].words[w],
                   url |-> ImageOf(word_groups[g].key)] :
                     g \in 1..Len(word_groups), w \in 1..4}

TableDefault ==
    IF rev = 1 THEN DefaultSemiTruck
    ELSE ImageOf(<<"l", "o", "g", "i", "s", "t", "i", "c", "s">>)

Matching == {e \in TableEntries : InTopic(e.keyword, arg)}
Longest ==
    {e \in Matching : \A o \in Matching : Len(o.keyword) <= Len(e.keyword)}

TableReturned ==
    /\ img_pc = "done" /\ img_log # <<>>
    /\ img_log[Len(img_log)] = Source("table", "returned")

\* C32: when the static table is used and several of its keywords occur in
\* the title or the summary of the topic, the URL of a longest one is
\* returned; when none occurs, the generic default is returned.
C32_LongestKeywordWins ==
    TableReturned =>
        IF Matching = {} THEN img_url = TableDefault
        ELSE \E e \in Longest : img_url = e.url

\* C33: a post whose image came from the generation request has a local
\* image file named after its id.
C33_ImageStoredUnderPostId ==
    \A k \in 1..Len(generated_posts) :
        generated_posts[k].image = GeneratedUrl =>
            \E f \in local_files :
                f.kind = "image" /\ f.id = generated_posts[k].id

\* ---------------------------------------------------- category property
ScoreOf(cat) ==
    LET k == CHOOSE j \in 1..Len(category_keywords) :
                category_keywords[j].cat = cat
    IN  Score(topic_text(arg), category_keywords[k].keywords)

Classified == {category_keywords[k].cat : k \in 1..Len(category_keywords)}

\* C34: a topic that carries a category gives the post exactly that
\* category; a topic without one gets the category with the highest
\* keyword count or, when every count is zero, one of the six
\* trucking-focused categories.
C34_CategoryKeptOrClassified ==
    category # Unset =>
        IF arg.category # NoCategory THEN category = arg.category
        ELSE IF \A c \in Classified : ScoreOf(c) = 0
             THEN category \in trucking_focused_categories
             ELSE /\ category \in Classified
                  /\ \A c \in Classified : ScoreOf(c) <= ScoreOf(category)

C34_Witness ==
    /\ arg.category = NoCategory /\ category \in Classified
    /\ \E c, d \in Classified :
          /\ c # d /\ c # category /\ d # category
          /\ 0 < ScoreOf(c) /\ ScoreOf(c) < ScoreOf(category)
          /\ ScoreOf(d) = 0

\* --------------------------------------------------- termination property
StageDone ==
    \/ main_pc = "crashed"
    \/ scope = "topics" /\ main_pc = "loop"
    \/ scope = "loop" /\ main_pc = "upload"
    \/ scope = "publish" /\ main_pc = "done"

Attempts(cmds, a) ==
    Cardinality({k \in 1..Len(ops) : ops[k].cmd \in cmds /\ ops[k].arg = a})

AtMostOnce ==
    /\ \A i, j \in 1..Len(tier_log) :
          i # j => tier_log[i].tier # tier_log[j].tier
    /\ calls <= 1
    /\ Attempts({"connect"}, <<>>) <= 1
    /\ Attempts({"login"}, <<>>) <= 1
    /\ \A k \in 1..Len(file_paths) :
          Attempts({"open", "stor"}, <<FileName(file_paths[k])>>) <= 1
    /\ Len(generated_posts) <= topic_i

\* C35: a run terminates: every stage of main reaches its end or main is
\* left by an exception; no tier is attempted twice, the loop takes each
\* selected topic once and in order, each file is sent at most once over
\* the one connection of the run, and no step is taken again.
C35_RunTerminates ==
    /\ <>StageDone
    /\ []AtMostOnce
    /\ [][/\ topic_i' \in {topic_i, topic_i + 1}
          /\ file_i' \in {file_i, file_i + 1} \/ ftp_pc = "idle"
          /\ StageDone => UNCHANGED <<main_pc, topic_i, tier_log, ops>>]_vars

C35_Witness ==
    /\ scope = "publish" /\ main_pc = "done"
    /\ Len(ops) > 2 /\ remote_files # {}
    /\ Len(generated_posts) = 1
====
